---------------------------- MODULE Spec2Model ----------------------------
(***************************************************************************)
(* A model of the erpc request-handling core (packages/erpc/lib):          *)
(*   - the connection-route tree built by Router.sub / Router.ws, its      *)
(*     compilation and the path matcher used by the upgrade handler;       *)
(*   - the procedure chain builder (generateProcedure / extend / use) and  *)
(*     the execution of a finalized chain for a request;                   *)
(*   - the default error handler of the Server.                            *)
(* Strings the code takes apart (route keys, urls, path segments) are      *)
(* sequences of one-character strings, so slice / split / startsWith are   *)
(* computed as the code computes them.                                     *)
(***************************************************************************)
EXTENDS Integers, Sequences, FiniteSets, TLC

(***************************************************************************)
(* Bounds of the model.                                                    *)
(***************************************************************************)
\* number of sub(...) / ws(...) declarations made on the routers
MaxDecl == 2
\* number of upgrade requests handled by the server
MaxUpgrades == 1
\* requests, upgrade requests or connections followed side by side
MaxUnits == 2

(***************************************************************************)
(* Inputs.                                                                 *)
(***************************************************************************)
\* route keys handed to sub(path) and ws(path, ...)
Keys ==
  { <<>>,                              \* ""
    <<"/">>,                           \* "/"
    <<"/", "a">>,                      \* "/a"
    <<"/", ":", "v">>,                 \* "/:v"
    <<"/", ":", "w", "/", "a">>,       \* "/:w/a"
    <<"/", "/", "a">> }                \* "//a"

\* urls of upgrade requests
Urls ==
  { <<"/">>,                           \* "/"
    <<"/", "a">>,                      \* "/a"
    <<"/", "b">>,                      \* "/b"
    <<"/", ":", "v">>,                 \* "/:v"
    <<"/", "a", "/", "b">>,            \* "/a/b"
    <<"/", "b", "/", "a">>,            \* "/b/a"
    <<"/", "b", "/", ":", "v">>,       \* "/b/:v"
    <<"/", "a", "?", "v", "=", "b">>,  \* "/a?v=b"
    <<"/", "b", "?", "w">> }           \* "/b?w"

VARIABLES
  wsRouters,         \* the wsRouter object of every Router created; 1 is the root
  declCount,         \* declarations made so far
  compiledWsRouter,  \* Server.compiledWsRouter
  upgradeCount,      \* upgrade requests handled so far
  upgrade,           \* what the last upgrade request computed
  apiPrefix,         \* Server.apiPrefix
  conns,             \* the Connections constructed, in order
  arrays,            \* the `previous` arrays allocated by the procedure builder
  procedures,        \* the procedures generateProcedure returned; 1 is baseProcedure
  route,             \* the finalized chain registered on the express router
  requests,          \* the requests sent to the route
  LOG_ERRORS         \* Server.LOG_ERRORS

routeVars ==
  <<wsRouters, declCount, compiledWsRouter, upgradeCount, upgrade, apiPrefix, conns>>
chainVars == <<arrays, procedures, route, requests, LOG_ERRORS>>
vars == <<routeVars, chainVars>>

(***************************************************************************)
(* String helpers of JavaScript, on sequences of characters.               *)
(***************************************************************************)
\* str.slice(from, to), 0-based from, exclusive to
slice(str, from, to) == SubSeq(str, from + 1, to)

\* str.startsWith(p)
startsWith(str, p) == Len(str) >= Len(p) /\ SubSeq(str, 1, Len(p)) = p

\* index (1-based) of the first occurrence of the character sep, 0 if none
indexOf(str, sep) ==
  IF \E i \in 1..Len(str) : str[i] = sep
  THEN CHOOSE i \in 1..Len(str) :
         str[i] = sep /\ \A j \in 1..(i - 1) : str[j] # sep
  ELSE 0

\* str.split(sep) for a one-character separator
RECURSIVE split(_, _)
split(str, sep) ==
  LET i == indexOf(str, sep)
  IN IF i = 0 THEN <<str>>
     ELSE <<SubSeq(str, 1, i - 1)>> \o split(SubSeq(str, i + 1, Len(str)), sep)

removeWrappingSlashes(str) ==
  IF Len(str) > 0 /\ str[1] = "/" THEN slice(str, 1, Len(str))
  ELSE IF Len(str) > 0 /\ str[Len(str)] = "/" THEN slice(str, 0, Len(str) - 1)
  ELSE str


(***************************************************************************)
(* Router: the connection-route declarations (router.ts).                  *)
(* A wsRouter object is the ordered list of its properties; a property is  *)
(* [key, isFn, fn, ref]: a terminal producer () => ({validators, handler}) *)
(* or a reference to the wsRouter of a sub-router.  Every ws(...) call      *)
(* makes a new producer: it is named by the number of the declaration.     *)
(***************************************************************************)
NoHandler == 0

\* an object that keeps what was stored under the key before
setPropertyBeside(obj, entry) == Append(obj, entry)

\* obj[key] = entry: an existing property keeps its place, a new one is appended
setProperty(obj, entry) ==
  IF \E i \in 1..Len(obj) : obj[i].key = entry.key
  THEN [i \in 1..Len(obj) |-> IF obj[i].key = entry.key THEN entry ELSE obj[i]]
  ELSE Append(obj, entry)

\* Router(path, parentWsRouter): a new empty wsRouter, stored in the parent
Router(heap, path, parentWsRouter) ==
  LET wsRouter == Len(heap) + 1
      stored == [heap EXCEPT ![parentWsRouter] =
                   setProperty(@, [key |-> path, isFn |-> FALSE,
                                   fn |-> NoHandler, ref |-> wsRouter])]
  IN Append(stored, <<>>)

\* router.sub(subRouterPath), on the router whose wsRouter is r
sub(r, subRouterPath) ==
  /\ declCount < MaxDecl
  /\ wsRouters' = Router(wsRouters, subRouterPath, r)
  /\ declCount' = declCount + 1
  /\ UNCHANGED <<compiledWsRouter, upgradeCount, upgrade, apiPrefix, conns, chainVars>>

\* router.ws(path, {validators}, handler), on the router whose wsRouter is r
ws(r, path) ==
  /\ declCount < MaxDecl
  /\ wsRouters' = [wsRouters EXCEPT ![r] =
                     setProperty(@, [key |-> path, isFn |-> TRUE,
                                     fn |-> declCount + 1, ref |-> 0])]
  /\ declCount' = declCount + 1
  /\ UNCHANGED <<compiledWsRouter, upgradeCount, upgrade, apiPrefix, conns, chainVars>>

(***************************************************************************)
(* Route tree compiler (compileRouteTree).                                 *)
(***************************************************************************)
\* the RawRoutingEngine value a wsRouter object denotes: references followed
RECURSIVE RawRoutingEngine(_, _)
RawRoutingEngine(heap, r) ==
  [i \in 1..Len(heap[r]) |->
     [key |-> heap[r][i].key, isFn |-> heap[r][i].isFn, fn |-> heap[r][i].fn,
      sub |-> IF heap[r][i].isFn THEN <<>>
              ELSE RawRoutingEngine(heap, heap[r][i].ref)]]

RECURSIVE compileRouteTree(_)
compileRouteTree(h) ==
  [i \in 1..Len(h) |->
     [path |-> split(removeWrappingSlashes(h[i].key), "/"),
      isFn |-> h[i].isFn,
      fn |-> h[i].fn,
      sub |-> IF h[i].isFn THEN <<>> ELSE compileRouteTree(h[i].sub)]]

(***************************************************************************)
(* Path matcher (getIndexHandler, matchPathToEndpoint).                    *)
(***************************************************************************)
EmptyVariables == [n \in {} |-> <<>>]

\* null
NoMatch == [matched |-> FALSE, variables |-> EmptyVariables, getValue |-> NoHandler]

Matched(variables, getValue) ==
  [matched |-> TRUE, variables |-> variables, getValue |-> getValue]

\* variables[name] = y
assign(variables, name, y) ==
  [n \in DOMAIN variables \cup {name} |-> IF n = name THEN y ELSE variables[n]]

\* { ...a, ...b }
spread(a, b) ==
  [n \in DOMAIN a \cup DOMAIN b |-> IF n \in DOMAIN b THEN b[n] ELSE a[n]]

\* the index handler of a compiled tree, NoHandler for null
RECURSIVE getIndexHandler(_)
getIndexHandler(c) ==
  IF \A i \in 1..Len(c) : c[i].path[1] # <<>> THEN NoHandler
  ELSE LET indexSubrouter ==
             c[CHOOSE i \in 1..Len(c) :
                 c[i].path[1] = <<>> /\ \A j \in 1..(i - 1) : c[j].path[1] # <<>>]
       IN IF indexSubrouter.isFn THEN indexSubrouter.fn
          ELSE getIndexHandler(indexSubrouter.sub)

\* the loop checkPathSegments from index i on; [ok, variables]
RECURSIVE checkPathSegments(_, _, _, _)
checkPathSegments(path, segments, i, variables) ==
  IF i > Len(path) THEN [ok |-> TRUE, variables |-> variables]
  ELSE LET x == path[i]
           y == segments[i]
       IN IF x = y THEN checkPathSegments(path, segments, i + 1, variables)
          ELSE IF startsWith(x, <<":">>)
               THEN checkPathSegments(path, segments, i + 1,
                                      assign(variables, slice(x, 1, Len(x)), y))
               ELSE [ok |-> FALSE, variables |-> variables]

RECURSIVE matchPathToEndpoint(_, _)

\* one iteration of the loop checkSubrouters: the match this entry returns,
\* NoMatch when the loop goes on to the next entry
checkSubrouter(entry, segments) ==
  LET path == entry.path
  IN IF Len(path) > Len(segments) THEN NoMatch
     ELSE IF Len(path) < Len(segments) /\ entry.isFn THEN NoMatch
     ELSE LET checked == checkPathSegments(path, segments, 1, EmptyVariables)
              variables == checked.variables
          IN IF ~checked.ok THEN NoMatch
             ELSE IF Len(path) = Len(segments)
                  THEN IF entry.isFn THEN Matched(variables, entry.fn)
                       ELSE LET indexHandler == getIndexHandler(entry.sub)
                            IN IF indexHandler # NoHandler
                               THEN Matched(variables, indexHandler)
                               ELSE NoMatch
                  ELSE LET remainingSegments ==
                             slice(segments, Len(path), Len(segments))
                           fn == matchPathToEndpoint(entry.sub, remainingSegments)
                       IN IF ~entry.isFn /\ fn.matched
                          THEN Matched(spread(variables, fn.variables), fn.getValue)
                          ELSE NoMatch

RECURSIVE checkSubrouters(_, _, _)

\* a matcher in which the last sibling that matches wins
checkSubroutersLastWins(heirarchy, segments, k) ==
  IF k > Len(heirarchy) THEN NoMatch
  ELSE LET later == checkSubrouters(heirarchy, segments, k + 1)
       IN IF later.matched THEN later
          ELSE checkSubrouter(heirarchy[k], segments)

\* the loop checkSubrouters from entry k on
checkSubrouters(heirarchy, segments, k) ==
  IF k > Len(heirarchy) THEN NoMatch
  ELSE LET found == checkSubrouter(heirarchy[k], segments)
       IN IF found.matched THEN found
          ELSE checkSubrouters(heirarchy, segments, k + 1)

matchPathToEndpoint(heirarchy, segments) == checkSubrouters(heirarchy, segments, 1)


(***************************************************************************)
(* Errors (error.ts, utils/errorHandling.ts).                              *)
(* A thrown value is [isERPC, isError, code, message, customCode]:         *)
(* an ERPCError with its opts, another Error, or a value that is no Error. *)
(***************************************************************************)
ErrorMap ==
  [BAD_REQUEST |-> 400, UNAUTHORIZED |-> 401, FORBIDDEN |-> 403,
   NOT_FOUND |-> 404, SERVER_ERROR |-> 500]

ErrorType == DOMAIN ErrorMap

\* opts.customCode left out
NoCustomCode == [defined |-> FALSE, value |-> 0]

CustomCode(n) == [defined |-> TRUE, value |-> n]

\* a thrown value: an ERPCError, another Error, a value that is not an Error
\* (throw "x"), or undefined (throw undefined, Promise.reject())
ERPCError(code, message, customCode) ==
  [isERPC |-> TRUE, isError |-> TRUE, isUndefined |-> FALSE, code |-> code,
   message |-> message, customCode |-> customCode]

Error(message) ==
  [isERPC |-> FALSE, isError |-> TRUE, isUndefined |-> FALSE, code |-> "",
   message |-> message, customCode |-> NoCustomCode]

NonError ==
  [isERPC |-> FALSE, isError |-> FALSE, isUndefined |-> FALSE, code |-> "",
   message |-> "", customCode |-> NoCustomCode]

Undefined ==
  [isERPC |-> FALSE, isError |-> FALSE, isUndefined |-> TRUE, code |-> "",
   message |-> "", customCode |-> NoCustomCode]

\* the error field of a response: { type, message }, a string, or undefined
TypedError(type, message) == [kind |-> "typed", type |-> type, message |-> message]

StringError(message) == [kind |-> "string", type |-> "", message |-> message]

UndefinedError == [kind |-> "undefined", type |-> "", message |-> ""]

\* a status taken from the table alone
transformERPCErrorNoCustom(err) ==
  IF err.isERPC
  THEN [status |-> ErrorMap[err.code], error |-> TypedError(err.code, err.message)]
  ELSE IF err.isError
  THEN [status |-> 500, error |-> StringError(err.message)]
  ELSE [status |-> 500, error |-> StringError("Unknown internal server error")]

transformERPCError(err) ==
  IF err.isERPC
  THEN [status |-> IF err.customCode.defined THEN err.customCode.value
                   ELSE ErrorMap[err.code],
        error |-> TypedError(err.code, err.message)]
  ELSE IF err.isError
  THEN [status |-> 500, error |-> StringError(err.message)]
  ELSE [status |-> 500, error |-> StringError("Unknown internal server error")]


(***************************************************************************)
(* Upgrade dispatcher (Server.createWebSocketHandler).                     *)
(***************************************************************************)
\* values a setup handler or a step may throw
Thrown ==
  { ERPCError("UNAUTHORIZED", "no", NoCustomCode),
    ERPCError("FORBIDDEN", "denied", CustomCode(418)),
    Error("boom"),
    NonError,
    Undefined }

\* opts.apiPrefix left out
NoPrefix == [defined |-> FALSE, value |-> <<>>]

Prefix(str) == [defined |-> TRUE, value |-> str]

ApiPrefixes == { NoPrefix, Prefix(<<"/", "b">>) }

\* this.compiledWsRouter before the first upgrade request
NotCompiled == [compiled |-> FALSE, tree |-> <<>>]

StabilizeFrame == "@scinorandex/erpc -- stabilize"

\* the payload of an object with no property
EmptyData == [k \in {} |-> 0]

\* a frame on the wire: a text that is no JSON document, or the JSON text
\* of an object with, or without, a string under eventName
Text(str) == [json |-> FALSE, named |-> FALSE, eventName |-> str, data |-> EmptyData]

Unnamed(data) == [json |-> TRUE, named |-> FALSE, eventName |-> "", data |-> data]

Named(eventName, data) ==
  [json |-> TRUE, named |-> TRUE, eventName |-> eventName, data |-> data]

\* socketEventHandlerMap of a new Connection
EmptyMap == [e \in {} |-> ""]

NotClosed == [closed |-> FALSE, code |-> 0, reason |-> UndefinedError]

\* queryParams.split("&").reduce(...), from part i on
RECURSIVE reduceQuery(_, _, _)
reduceQuery(parts, i, acc) ==
  IF i > Len(parts) THEN acc
  ELSE LET kv == split(parts[i], "=")
           key == kv[1]
           val == IF Len(kv) >= 2 THEN kv[2] ELSE <<"t", "r", "u", "e">>
       IN reduceQuery(parts, i + 1, assign(acc, key, val))

\* the url with the api prefix taken off
stripPrefix(url) ==
  IF apiPrefix.defined /\ startsWith(url, apiPrefix.value)
  THEN slice(url, Len(apiPrefix.value), Len(url))
  ELSE url

\* a callback that gives the setup handler no path variables
handleUpgradeNoParams(endpoint, query) ==
  [handler |-> endpoint.getValue, params |-> EmptyVariables, query |-> query,
   setup |-> "pending", rejection |-> <<>>, sent |-> <<>>, close |-> NotClosed,
   socketEventHandlerMap |-> EmptyMap, registered |-> <<>>, calls |-> 0,
   frames |-> <<>>, invoked |-> <<>>]

\* the callback of handleUpgrade: the Connection made for the socket, with
\* no handler and no frame yet, and the call of the setup handler of the
\* endpoint, whose promise is pending
handleUpgrade(endpoint, query) ==
  [handler |-> endpoint.getValue, params |-> endpoint.variables, query |-> query,
   setup |-> "pending", rejection |-> <<>>, sent |-> <<>>, close |-> NotClosed,
   socketEventHandlerMap |-> EmptyMap, registered |-> <<>>, calls |-> 0,
   frames |-> <<>>, invoked |-> <<>>]

\* a handler that upgrades whatever the matcher returned
upgradeAlways(endpoint, query) ==
  Append(conns, handleUpgrade(endpoint, query))

\* if (endpoint) websocketServer.handleUpgrade(...): the connections after
\* the request
upgradeIfMatched(endpoint, query) ==
  IF endpoint.matched
  THEN Append(conns, handleUpgrade(endpoint, query))
  ELSE conns

\* a handler that compiles the declarations at every request
compileAtEveryUse ==
  [compiled |-> TRUE, tree |-> compileRouteTree(RawRoutingEngine(wsRouters, 1))]

\* if (!this.compiledWsRouter) this.compiledWsRouter = compileRouteTree(...):
\* the compiled tree the handler goes on with
compileOnFirstUse ==
  IF ~compiledWsRouter.compiled
  THEN [compiled |-> TRUE, tree |-> compileRouteTree(RawRoutingEngine(wsRouters, 1))]
  ELSE compiledWsRouter

\* the socket of the request when the handler returns: handleUpgrade has
\* taken it over, or nothing was written to it and nothing was done with it
socketAfter(endpoint) == IF endpoint.matched THEN "upgraded" ELSE "open"

\* the handler of the "upgrade" event, for a request with this url, while
\* fewer than limit requests have been handled
UpgradeWithin(limit, reqUrl) ==
  /\ upgradeCount < limit
  /\ LET compiled == compileOnFirstUse
         url == stripPrefix(reqUrl)
         parts == split(url, "?")
         path == parts[1]
         query == IF Len(parts) >= 2 /\ parts[2] # <<>>
                  THEN reduceQuery(split(parts[2], "&"), 1, EmptyVariables)
                  ELSE EmptyVariables
         segments == split(removeWrappingSlashes(path), "/")
         endpoint == matchPathToEndpoint(compiled.tree, segments)
     IN /\ compiledWsRouter' = compiled
        /\ upgrade' = [url |-> reqUrl, segments |-> segments, query |-> query,
                       endpoint |-> endpoint, socket |-> socketAfter(endpoint)]
        /\ conns' = upgradeIfMatched(endpoint, query)
  /\ upgradeCount' = upgradeCount + 1
  /\ UNCHANGED <<wsRouters, declCount, apiPrefix, chainVars>>

\* the handler of the "upgrade" event, for a request with this url
Upgrade(reqUrl) == UpgradeWithin(MaxUpgrades, reqUrl)

\* a callback that sends the frame before and after the setup handler
SetupResolvedTwice(c) ==
  /\ conns[c].setup = "pending"
  /\ conns' = [conns EXCEPT ![c].setup = "resolved",
                            ![c].sent = @ \o <<Text(StabilizeFrame), Text(StabilizeFrame)>>]
  /\ UNCHANGED <<wsRouters, declCount, compiledWsRouter, upgradeCount, upgrade, apiPrefix, chainVars>>

\* the setup handler's promise resolves: .then(() => ws.send(...))
SetupResolved(c) ==
  /\ conns[c].setup = "pending"
  /\ conns' = [conns EXCEPT ![c].setup = "resolved",
                            ![c].sent = Append(@, Text(StabilizeFrame))]
  /\ UNCHANGED <<wsRouters, declCount, compiledWsRouter, upgradeCount, upgrade, apiPrefix, chainVars>>

\* the setup handler's promise rejects: .catch((err) => ws.close(...))
SetupRejected(c, err) ==
  /\ conns[c].setup = "pending"
  /\ LET t == transformERPCError(err)
     IN conns' = [conns EXCEPT ![c].setup = "rejected",
                               ![c].rejection = <<err>>,
                               ![c].close = [closed |-> TRUE,
                                             code |-> 4000 + t.status,
                                             reason |-> t.error]]
  /\ UNCHANGED <<wsRouters, declCount, compiledWsRouter, upgradeCount, upgrade, apiPrefix, chainVars>>

(***************************************************************************)
(* Connection: the listener for inbound frames, on and emit.               *)
(* The listener is an async function: between its awaits other frames,     *)
(* and calls of on and emit, take place.                                   *)
(***************************************************************************)
\* inbound frames received on the connections
MaxFrames == 2
\* calls of on and emit made on the connections
MaxCalls == 2

\* event names: send_message has a schema on the route, ping has none
Events == {"send_message", "ping"}

\* functions given to on()
EventHandlers == {"h1", "h2"}

\* the validators object of the route: the events with a schema
Validators == {"send_message"}

\* payloads: { contents: "Hello World!" }, the same with one more property,
\* with a number for contents, and with a property that is undefined
Data ==
  { [k \in {"contents"} |-> "string"],
    [k \in {"contents", "extra"} |-> "string"],
    [k \in {"contents"} |-> "number"],
    [k \in {"contents", "extra"} |-> IF k = "contents" THEN "string" ELSE "undefined"] }

\* JSON.stringify({ eventName, data }): properties that are undefined are
\* left out
stringify(eventName, data) ==
  Named(eventName, [k \in {x \in DOMAIN data : data[x] # "undefined"} |-> data[k]])

\* reqValidator.parseAsync(JSON.parse(stringified)): JSON.parse throws on a
\* text that is no JSON document, the validator refuses an object with no
\* string under eventName
reqValidator(wire) ==
  [ok |-> wire.json /\ wire.named, eventName |-> wire.eventName, data |-> wire.data]

\* a schema that gives the payload as it came
parsePayloadAsIs(data) ==
  IF "contents" \in DOMAIN data /\ data["contents"] = "string"
  THEN [ok |-> TRUE, value |-> data]
  ELSE [ok |-> FALSE, value |-> EmptyData]

\* validators[eventName].parseAsync(data), for z.object({ contents:
\* z.string() }): the object is refused unless contents is a string, and
\* given with the properties of the schema alone
parsePayload(data) ==
  IF "contents" \in DOMAIN data /\ data["contents"] = "string"
  THEN [ok |-> TRUE, value |-> [k \in {"contents"} |-> data[k]]]
  ELSE [ok |-> FALSE, value |-> EmptyData]

\* a Map where this handler is kept beside those already under the name
mapAdd(map, eventName, handler) ==
  [e \in DOMAIN map \cup {eventName} |-> IF e \in DOMAIN map THEN map[e] ELSE handler]

\* Map.prototype.set
mapSet(map, eventName, handler) ==
  [e \in DOMAIN map \cup {eventName} |-> IF e = eventName THEN handler ELSE map[e]]

\* the frames received on the first n connections
RECURSIVE ReceivedUpTo(_)
ReceivedUpTo(n) == IF n = 0 THEN 0 ELSE Len(conns[n].frames) + ReceivedUpTo(n - 1)

\* the calls of on and emit made on the first n connections
RECURSIVE CalledUpTo(_)
CalledUpTo(n) == IF n = 0 THEN 0 ELSE conns[n].calls + CalledUpTo(n - 1)

\* the frames received, and the calls made, on all connections
Received == ReceivedUpTo(Len(conns))
Called == CalledUpTo(Len(conns))

UnchangedButConns ==
  UNCHANGED <<wsRouters, declCount, compiledWsRouter, upgradeCount, upgrade,
              apiPrefix, chainVars>>

\* conn.on(eventName, handler); the calls are logged in registered
on(c, eventName, handler) ==
  /\ Called < MaxCalls
  /\ conns' = [conns EXCEPT ![c].socketEventHandlerMap = mapSet(@, eventName, handler),
                            ![c].registered = Append(@, <<eventName, handler>>),
                            ![c].calls = @ + 1]
  /\ UnchangedButConns

\* conn.emit(eventName, data)
emit(c, eventName, data) ==
  /\ Called < MaxCalls
  /\ ~conns[c].close.closed
  /\ conns' = [conns EXCEPT ![c].sent = Append(@, stringify(eventName, data)),
                            ![c].calls = @ + 1]
  /\ UnchangedButConns

\* an inbound frame the listener has been called for: where the listener
\* is, and what it has got so far
Frame(wire, stage) ==
  [wire |-> wire, stage |-> stage, eventName |-> "", data |-> EmptyData,
   handler |-> "", parsedData |-> EmptyData, settled |-> ""]

\* a frame connection c sent comes in on connection d, an end of the same
\* class: what JSON.stringify wrote is what data.toString() reads
Deliver(c, i, d) ==
  /\ i <= Len(conns[c].sent)
  /\ ~conns[d].close.closed
  /\ Received < MaxFrames
  /\ conns' = [conns EXCEPT ![d].frames =
       Append(@, Frame(conns[c].sent[i],
                       IF conns[c].sent[i].json THEN "envelope" ELSE "dropped"))]
  /\ UnchangedButConns

\* the socket emits "message": the listener runs up to its first await,
\* or to its catch when JSON.parse throws
Message(c, wire) ==
  /\ ~conns[c].close.closed
  /\ Received < MaxFrames
  /\ conns' = [conns EXCEPT ![c].frames =
       Append(@, Frame(wire, IF wire.json THEN "envelope" ELSE "dropped"))]
  /\ UnchangedButConns

\* a listener whose catch closes the socket
EnvelopeParsedClosing(c, f) ==
  /\ conns[c].frames[f].stage = "envelope"
  /\ LET parsed == reqValidator(conns[c].frames[f].wire)
         map == conns[c].socketEventHandlerMap
     IN conns' =
          IF ~parsed.ok \/ parsed.eventName \notin DOMAIN map
             \/ parsed.eventName \notin Validators
          THEN [conns EXCEPT ![c].frames[f].stage = "dropped",
                             ![c].close.closed = TRUE]
          ELSE [conns EXCEPT ![c].frames[f] =
                  [@ EXCEPT !.stage = "payload", !.eventName = parsed.eventName,
                            !.data = parsed.data, !.handler = map[parsed.eventName]]]
  /\ UnchangedButConns

\* reqValidator.parseAsync settles: the listener looks the handler up and
\* starts the validation of the payload, or ends in its catch
EnvelopeParsed(c, f) ==
  /\ conns[c].frames[f].stage = "envelope"
  /\ LET parsed == reqValidator(conns[c].frames[f].wire)
         map == conns[c].socketEventHandlerMap
     IN conns' = [conns EXCEPT ![c].frames[f] =
          IF ~parsed.ok \/ parsed.eventName \notin DOMAIN map
             \/ parsed.eventName \notin Validators
          THEN [@ EXCEPT !.stage = "dropped"]
          ELSE [@ EXCEPT !.stage = "payload", !.eventName = parsed.eventName,
                         !.data = parsed.data, !.handler = map[parsed.eventName]]]
  /\ UnchangedButConns

\* a listener that calls the handler whatever the schema says
PayloadParsedAnyway(c, f) ==
  /\ conns[c].frames[f].stage = "payload"
  /\ conns' = [conns EXCEPT ![c].frames[f].stage = "handler",
                            ![c].frames[f].parsedData = conns[c].frames[f].data,
                            ![c].invoked = Append(@,
                               [frame |-> f, handler |-> conns[c].frames[f].handler,
                                data |-> conns[c].frames[f].data])]
  /\ UnchangedButConns

\* validators[eventName].parseAsync settles: the listener calls the
\* handler with the parsed payload, or ends in its catch
PayloadParsed(c, f) ==
  /\ conns[c].frames[f].stage = "payload"
  /\ LET parsed == parsePayload(conns[c].frames[f].data)
     IN conns' =
          IF ~parsed.ok
          THEN [conns EXCEPT ![c].frames[f].stage = "dropped"]
          ELSE [conns EXCEPT ![c].frames[f].stage = "handler",
                             ![c].frames[f].parsedData = parsed.value,
                             ![c].invoked = Append(@,
                                [frame |-> f, handler |-> conns[c].frames[f].handler,
                                 data |-> parsed.value])]
  /\ UnchangedButConns

\* a listener that closes the socket when the handler fails
EventHandlerSettledClosing(c, f, how) ==
  /\ conns[c].frames[f].stage = "handler"
  /\ conns' = [conns EXCEPT ![c].frames[f].stage = "done",
                            ![c].frames[f].settled = how,
                            ![c].close.closed = (how = "rejected")]
  /\ UnchangedButConns

\* the promise of the handler is fulfilled, or is rejected and the
\* listener ends in its catch
EventHandlerSettled(c, f, how) ==
  /\ conns[c].frames[f].stage = "handler"
  /\ conns' = [conns EXCEPT ![c].frames[f].stage = "done",
                            ![c].frames[f].settled = how]
  /\ UnchangedButConns

(***************************************************************************)
(* Procedure chain builder (middleware.ts, generateProcedure).             *)
(* A step is named by the function given to extend; `arrays` holds the     *)
(* arrays the builder allocates, so that sharing one would show.           *)
(***************************************************************************)
\* number of procedures built, baseProcedure included
MaxProcs == 3
\* number of requests sent to the route
MaxRequests == 1

\* async (req, res) => ({}), the step of baseProcedure
BaseStep == "base"

\* bodyValidator and queryValidator, the steps input() and query() append
InputStep == "input"

QueryStep == "query"

\* steps of the application given to extend
UserSteps == {"s1", "s2"}

\* the terminal function use() pushes after the steps
Handler == "handler"

\* res.locals of a new response
EmptyLocals == [k \in {} |-> 0]

\* what a step returns when it succeeds
Returns(step) ==
  CASE step = "s1" -> [k \in {"a", "b"} |-> 1]
    [] step = "s2" -> [k \in {"a"} |-> 2]
    [] OTHER -> EmptyLocals

\* what a step may throw: anything for a step of the application, nothing
\* for the base step
Throws(step) == IF step \in UserSteps THEN Thrown ELSE {}

\* req.query: the parameters themselves, or their encoding under the key
\* __erpc_query, which JSON.parse may refuse
PlainQuery(value) == [encoded |-> FALSE, wellFormed |-> TRUE, value |-> value]

EncodedQuery(value) == [encoded |-> TRUE, wellFormed |-> TRUE, value |-> value]

MalformedQuery == [encoded |-> TRUE, wellFormed |-> FALSE, value |-> 0]

\* req.body and req.query of the requests sent
Bodies == {7, 0}

Queries == {PlainQuery(8), PlainQuery(0), EncodedQuery(8), MalformedQuery}

\* checker.parseAsync(value), for the schema given to input() and query():
\* it refuses 0 with its message, and gives any other value transformed
parseAsync(value) ==
  IF value = 0 THEN [ok |-> FALSE, value |-> 0, message |-> "invalid"]
  ELSE [ok |-> TRUE, value |-> value * 10, message |-> ""]

\* a promise fulfilled with result, and one rejected with err
Fulfilled(result) == [fulfilled |-> TRUE, result |-> result, err |-> Undefined]

Rejected(err) == [fulfilled |-> FALSE, result |-> EmptyLocals, err |-> err]

\* a validator that gives the request body as it came
bodyValidatorRaw(req) ==
  LET parsed == parseAsync(req.reqBody)
  IN IF parsed.ok THEN Fulfilled([k \in {"input"} |-> req.reqBody])
     ELSE Rejected(ERPCError("BAD_REQUEST", parsed.message, NoCustomCode))

\* bodyValidator of input(checker)
bodyValidator(req) ==
  LET parsed == parseAsync(req.reqBody)
  IN IF parsed.ok THEN Fulfilled([k \in {"input"} |-> parsed.value])
     ELSE Rejected(ERPCError("BAD_REQUEST", parsed.message, NoCustomCode))

\* queryValidator of query(checker)
queryValidator(req) ==
  IF req.reqQuery.encoded /\ ~req.reqQuery.wellFormed
  THEN Rejected(ERPCError("BAD_REQUEST", "Unexpected token", NoCustomCode))
  ELSE LET parsed == parseAsync(req.reqQuery.value)
       IN IF parsed.ok THEN Fulfilled([k \in {"query"} |-> parsed.value])
          ELSE Rejected(ERPCError("BAD_REQUEST", parsed.message, NoCustomCode))

\* how the promise of a step may settle for this request
StepOutcomes(step, req) ==
  IF step = InputStep THEN {bodyValidator(req)}
  ELSE IF step = QueryStep THEN {queryValidator(req)}
  ELSE {Fulfilled(Returns(step))} \cup {Rejected(err) : err \in Throws(step)}

\* what the terminal handler may return
HandlerResults == {"r1", "r2"}

\* ctx left out, and { previous: a }
NoCtx == [defined |-> FALSE, previous |-> 0]

Ctx(a) == [defined |-> TRUE, previous |-> a]

\* an array that shares the storage of a
spreadArrayShared(heap, a) == [heap |-> heap, array |-> a]

\* [...a]: a new array with the elements of a
spreadArray(heap, a) == [heap |-> Append(heap, heap[a]), array |-> Len(heap) + 1]

\* generateProcedure(mw, ctx): the heap after it, and its array `previous`
generateProcedure(heap, mw, ctx) ==
  LET copied == IF ctx.defined THEN spreadArray(heap, ctx.previous)
                ELSE [heap |-> Append(heap, <<>>), array |-> Len(heap) + 1]
  IN [heap |-> [copied.heap EXCEPT ![copied.array] = Append(@, mw)],
      previous |-> copied.array]

\* procedure.extend(append), on procedure p
extend(p, append) ==
  /\ Len(procedures) < MaxProcs
  /\ LET given == spreadArray(arrays, procedures[p].previous)
         made == generateProcedure(given.heap, append, Ctx(given.array))
     IN /\ arrays' = made.heap
        /\ procedures' = Append(procedures, [previous |-> made.previous,
                                             mw |-> append, parent |-> p])
  /\ UNCHANGED <<route, requests, LOG_ERRORS, routeVars>>

\* procedure.input(checker)
input(p) == extend(p, InputStep)

\* procedure.query(checker)
query(p) == extend(p, QueryStep)

\* use(handler): the middlewares of the FinalizedHandler
use(heap, previous) ==
  [i \in 1..(Len(heap[previous]) + 1) |->
     IF i <= Len(heap[previous]) THEN heap[previous][i] ELSE Handler]

NoRoute == [registered |-> FALSE, procedure |-> 0, middlewares |-> <<>>]

\* router.get(path, procedure, handler): procedure.__finalize(handler) is
\* mounted on the express router
finalize(p) ==
  /\ ~route.registered
  /\ route' = [registered |-> TRUE, procedure |-> p,
               middlewares |-> use(arrays, procedures[p].previous)]
  /\ UNCHANGED <<arrays, procedures, requests, LOG_ERRORS, routeVars>>

(***************************************************************************)
(* A request through the finalized chain (use, and the error handler of    *)
(* the Server).  Express calls the middlewares one at a time: each calls   *)
(* its step and goes on when the step's promise settles.                   *)
(***************************************************************************)
NoResult == ""

NoBody == [written |-> FALSE, success |-> FALSE, result |-> NoResult,
           error |-> UndefinedError]

\* a request express has received: nothing of the chain has run yet.
\* calls, returned, rejected, seen, handled, writes and sink record what
\* happened to it: the middlewares called, the results and failures of the
\* steps, the locals given to the handler, what the handler returned, the
\* calls of res.json and the calls of the error handler.
NewRequest(reqBody, reqQuery) ==
  [reqBody |-> reqBody, reqQuery |-> reqQuery, phase |-> "pending", index |-> 0, locals |-> EmptyLocals, statusCode |-> 200,
   body |-> NoBody, calls |-> <<>>, returned |-> <<>>, rejected |-> <<>>,
   seen |-> EmptyLocals, handled |-> <<>>, writes |-> 0, sink |-> <<>>]

\* express calls middlewares[i]: it calls its step, or the terminal handler.
\* Past the last middleware the request leaves the route, with no error.
invoke(req, i) ==
  IF i > Len(route.middlewares)
  THEN [req EXCEPT !.phase = "passed", !.index = i]
  ELSE IF route.middlewares[i] = Handler
  THEN [req EXCEPT !.phase = "handler", !.index = i, !.calls = Append(@, i),
                   !.seen = req.locals]
  ELSE [req EXCEPT !.phase = "step", !.index = i, !.calls = Append(@, i)]

\* the result is merged so that keys already in the context keep their value
mergeLocalsKeep(locals, result) ==
  [k \in DOMAIN locals \cup DOMAIN result |->
     IF k \in DOMAIN locals THEN locals[k] ELSE result[k]]

\* Object.entries(result).forEach(([key, value]) => res.locals[key] = value)
mergeLocals(locals, result) ==
  [k \in DOMAIN locals \cup DOMAIN result |->
     IF k \in DOMAIN result THEN result[k] ELSE locals[k]]

\* an error handler that always reports the error
errorHandlerVerbose(req, err) ==
  LET t == transformERPCError(err)
  IN [req EXCEPT !.phase = "failed",
                 !.statusCode = IF req.statusCode = 200 THEN t.status ELSE @,
                 !.body = [written |-> TRUE, success |-> FALSE, result |-> NoResult,
                           error |-> t.error],
                 !.writes = @ + 1,
                 !.sink = Append(@, [err |-> err, statusCode |-> req.statusCode])]

\* the error handler of the Server, with no opts.errorHandler
errorHandler(req, err) ==
  LET t == transformERPCError(err)
  IN [req EXCEPT !.phase = "failed",
                 !.statusCode = IF req.statusCode = 200 THEN t.status ELSE @,
                 !.body = [written |-> TRUE, success |-> FALSE, result |-> NoResult,
                           error |-> IF LOG_ERRORS THEN t.error ELSE UndefinedError],
                 !.writes = @ + 1,
                 !.sink = Append(@, [err |-> err, statusCode |-> req.statusCode])]

\* next(err) of express: next() is next(undefined), the request goes on to
\* the following middleware; any other argument takes it to the error handler
next(req, err) ==
  IF err = Undefined THEN invoke(req, req.index + 1) ELSE errorHandler(req, err)

\* .then((result) => { ...; return next(); }) of a step
onStepFulfilled(req, result) ==
  next([req EXCEPT !.locals = mergeLocals(@, result),
                   !.returned = Append(@, result)], Undefined)

\* .catch(next) of a step
onStepRejected(req, err) ==
  next([req EXCEPT !.rejected = Append(@, [index |-> req.index, err |-> err])], err)

\* .then((result) => { res.json({ success: true, result }); }) of the handler
onHandlerFulfilled(req, result) ==
  [req EXCEPT !.phase = "completed",
              !.body = [written |-> TRUE, success |-> TRUE, result |-> result,
                        error |-> UndefinedError],
              !.handled = Append(@, result),
              !.writes = @ + 1]

\* .catch(next) of the handler
onHandlerRejected(req, err) ==
  next([req EXCEPT !.rejected = Append(@, [index |-> req.index, err |-> err])], err)

UnchangedButRequests == UNCHANGED <<arrays, procedures, route, LOG_ERRORS, routeVars>>

Reads(step) == \E i \in 1..Len(route.middlewares) : route.middlewares[i] = step

\* a request for the route arrives at the server, with this body and this
\* query; what no step of the chain reads is left at one value
ArriveWithin(limit, reqBody, reqQuery) ==
  /\ route.registered
  /\ Len(requests) < limit
  /\ ~Reads(InputStep) => reqBody = 7
  /\ ~Reads(QueryStep) => reqQuery = PlainQuery(8)
  /\ requests' = Append(requests, NewRequest(reqBody, reqQuery))
  /\ UnchangedButRequests

Arrive(reqBody, reqQuery) == ArriveWithin(MaxRequests, reqBody, reqQuery)

\* a server that takes a request up once no other request is in the chain
DispatchAfterOthers(r) ==
  /\ requests[r].phase = "pending"
  /\ \A q \in 1..Len(requests) : requests[q].phase \notin {"step", "handler", "hung"}
  /\ requests' = [requests EXCEPT ![r] = invoke(@, 1)]
  /\ UnchangedButRequests

\* express dispatches the request to the first middleware of the chain
Dispatch(r) ==
  /\ requests[r].phase = "pending"
  /\ requests' = [requests EXCEPT ![r] = invoke(@, 1)]
  /\ UnchangedButRequests

\* the running step or handler of the application calls res.status(201)
SetStatus(r) ==
  /\ \/ requests[r].phase = "handler"
     \/ /\ requests[r].phase = "step"
        /\ route.middlewares[requests[r].index] \in UserSteps
  /\ requests[r].statusCode = 200
  /\ requests' = [requests EXCEPT ![r].statusCode = 201]
  /\ UnchangedButRequests

\* a chain whose steps write to one context all requests share
StepFulfilledShared(r) ==
  /\ requests[r].phase = "step"
  /\ \E o \in StepOutcomes(route.middlewares[requests[r].index], requests[r]) :
       /\ o.fulfilled
       /\ requests' = [q \in 1..Len(requests) |->
            IF q = r THEN onStepFulfilled(requests[q], o.result)
            ELSE [requests[q] EXCEPT !.locals = mergeLocals(@, o.result)]]
  /\ UnchangedButRequests

\* the promise of the running step is fulfilled
StepFulfilled(r) ==
  /\ requests[r].phase = "step"
  /\ \E o \in StepOutcomes(route.middlewares[requests[r].index], requests[r]) :
       /\ o.fulfilled
       /\ requests' = [requests EXCEPT ![r] = onStepFulfilled(@, o.result)]
  /\ UnchangedButRequests

\* the promise of the running step is rejected
StepRejected(r, err) ==
  /\ requests[r].phase = "step"
  /\ Rejected(err) \in StepOutcomes(route.middlewares[requests[r].index], requests[r])
  /\ requests' = [requests EXCEPT ![r] = onStepRejected(@, err)]
  /\ UnchangedButRequests

\* the promise of the terminal handler is fulfilled
HandlerFulfilled(r, result) ==
  /\ requests[r].phase = "handler"
  /\ requests' = [requests EXCEPT ![r] = onHandlerFulfilled(@, result)]
  /\ UnchangedButRequests

\* the promise of the terminal handler is rejected
HandlerRejected(r, err) ==
  /\ requests[r].phase = "handler"
  /\ requests' = [requests EXCEPT ![r] = onHandlerRejected(@, err)]
  /\ UnchangedButRequests

\* the promise the running step or handler returned is one that never
\* settles: neither .then nor .catch of the middleware is ever called
Hang(r) ==
  /\ requests[r].phase \in {"step", "handler"}
  /\ requests' = [requests EXCEPT ![r].phase = "hung"]
  /\ UnchangedButRequests

\* the promise of the running step or handler settles, one way or the other
Settle(r) ==
  \/ StepFulfilled(r)
  \/ StepRejected(r, Error("boom"))
  \/ HandlerFulfilled(r, "r1")
  \/ HandlerRejected(r, Error("boom"))

(***************************************************************************)
(* The server with its connection routes.                                  *)
(***************************************************************************)
NoUpgrade ==
  [url |-> <<>>, segments |-> <<>>, query |-> EmptyVariables, endpoint |-> NoMatch,
   socket |-> "none"]

\* the Server constructed with one of these api prefixes and logErrors options
InitServer(prefixes, logErrors) ==
  /\ wsRouters = << <<>> >>
  /\ declCount = 0
  /\ compiledWsRouter = NotCompiled
  /\ upgradeCount = 0
  /\ upgrade = NoUpgrade
  /\ apiPrefix \in prefixes
  /\ conns = <<>>
  /\ LET made == generateProcedure(<<>>, BaseStep, NoCtx)
     IN /\ arrays = made.heap
        /\ procedures = <<[previous |-> made.previous, mw |-> BaseStep, parent |-> 0]>>
  /\ route = NoRoute
  /\ requests = <<>>
  /\ LOG_ERRORS \in logErrors

\* the routes are declared, then the server listens (README, "Quickstart")
Declaring == ~compiledWsRouter.compiled

NextRoute ==
  \/ \E r \in 1..Len(wsRouters), p \in Keys : Declaring /\ sub(r, p)
  \/ \E r \in 1..Len(wsRouters), p \in Keys : Declaring /\ ws(r, p)
  \/ \E u \in Urls : Upgrade(u)

NextSetup ==
  \/ \E c \in 1..Len(conns) : SetupResolved(c)
  \/ \E c \in 1..Len(conns), err \in Thrown : SetupRejected(c, err)

\* procedures are derived from any procedure built so far
NextBuild ==
  \/ \E p \in 1..Len(procedures), s \in UserSteps : extend(p, s)
  \/ \E p \in 1..Len(procedures) : input(p)
  \/ \E p \in 1..Len(procedures) : query(p)
  \/ \E p \in 1..Len(procedures) : finalize(p)

\* the failures of steps: those thrown by the application, and the
\* BAD_REQUEST of the validators
Failures ==
  Thrown \cup {ERPCError("BAD_REQUEST", m, NoCustomCode) : m \in {"invalid", "Unexpected token"}}

NextRequest ==
  \/ \E b \in Bodies, q \in Queries : Arrive(b, q)
  \/ \E r \in 1..Len(requests) : Dispatch(r)
  \/ \E r \in 1..Len(requests) : SetStatus(r)
  \/ \E r \in 1..Len(requests) : StepFulfilled(r)
  \/ \E r \in 1..Len(requests), err \in Failures : StepRejected(r, err)
  \/ \E r \in 1..Len(requests), result \in HandlerResults : HandlerFulfilled(r, result)
  \/ \E r \in 1..Len(requests), err \in Thrown : HandlerRejected(r, err)

\* the chain being built does not have this step yet
Fresh(step) ==
  /\ ~route.registered
  /\ \A p \in 1..Len(procedures) : procedures[p].mw # step

\* one chain is built step by step, each step used once, and registered;
\* then requests arrive
NextChain ==
  \/ \E s \in UserSteps : Fresh(s) /\ extend(Len(procedures), s)
  \/ Fresh(InputStep) /\ input(Len(procedures))
  \/ Fresh(QueryStep) /\ query(Len(procedures))
  \/ \E p \in 1..Len(procedures) : finalize(p)
  \/ NextRequest

\* as NextChain, for chains of steps of the application alone
NextSink ==
  \/ \E s \in UserSteps : Fresh(s) /\ extend(Len(procedures), s)
  \/ \E p \in 1..Len(procedures) : finalize(p)
  \/ NextRequest

\* the route and the upgrade request of the connections
GatewayKey == <<"/", "a">>

NextListener ==
  \/ \E c \in 1..Len(conns), f \in 1..MaxFrames :
       f <= Len(conns[c].frames) /\ EnvelopeParsed(c, f)
  \/ \E c \in 1..Len(conns), f \in 1..MaxFrames :
       f <= Len(conns[c].frames) /\ PayloadParsed(c, f)
  \/ \E c \in 1..Len(conns), f \in 1..MaxFrames, how \in {"fulfilled", "rejected"} :
       f <= Len(conns[c].frames) /\ EventHandlerSettled(c, f, how)

\* frames a peer may send: texts that are no JSON, objects with no event
\* name, and what a peer's emit produces
Wires ==
  {Text("hello"), Unnamed(EmptyData)}
    \cup {stringify("send_message", d) : d \in Data}
    \cup {stringify("ping", d) : d \in {[k \in {"contents"} |-> "string"]}}

\* one connection to one route: handlers are registered, frames arrive
NextConn ==
  \/ declCount = 0 /\ Declaring /\ ws(1, GatewayKey)
  \/ Len(conns) = 0 /\ Upgrade(GatewayKey)
  \/ \E c \in 1..Len(conns), e \in Events, h \in EventHandlers : on(c, e, h)
  \/ \E c \in 1..Len(conns), wire \in Wires : Message(c, wire)
  \/ NextListener

\* the frames one connection emits are received by a connection
NextEmit ==
  \/ declCount = 0 /\ Declaring /\ ws(1, GatewayKey)
  \/ Upgrade(GatewayKey)
  \/ \E c \in 1..Len(conns), h \in EventHandlers : on(c, "send_message", h)
  \/ \E c \in 1..Len(conns), d \in Data : emit(c, "send_message", d)
  \/ \E c, d \in 1..Len(conns), i \in 1..MaxCalls : Deliver(c, i, d)
  \/ NextListener

Init == InitServer(ApiPrefixes, BOOLEAN)

Next == NextRoute \/ NextSetup \/ NextBuild \/ NextRequest

\* the connection routes and the upgrade requests matched against them
SpecRoute == InitServer(ApiPrefixes, {TRUE}) /\ [][NextRoute]_vars

\* the procedures derived with extend, input and query
SpecBuild == InitServer({NoPrefix}, {TRUE}) /\ [][NextBuild]_vars

\* requests through one finalized chain
SpecChain == InitServer({NoPrefix}, {TRUE}) /\ [][NextChain]_vars

\* requests that fail on their way to the error handler, with verbose
\* reporting on and off
SpecSink == InitServer({NoPrefix}, BOOLEAN) /\ [][NextSink]_vars

\* inbound frames on the connections of one route
SpecConn == InitServer({NoPrefix}, {TRUE}) /\ [][NextConn]_vars

\* frames emitted by a connection and received by a connection
SpecEmit == InitServer({NoPrefix}, {TRUE}) /\ [][NextEmit]_vars

\* the routes declared, and the urls requested, where the setup handlers
\* are followed: "/a", "/:v" and "/:w/a", under the root or under "/:v";
\* "/a", "/a?v=b", "/b?w", "/b/a" and "/a/b"
SetupKeys == {<<"/", "a">>, <<"/", ":", "v">>, <<"/", ":", "w", "/", "a">>}
SetupUrls ==
  {<<"/", "a">>, <<"/", "a", "?", "v", "=", "b">>, <<"/", "b", "?", "w">>,
   <<"/", "b", "/", "a">>, <<"/", "a", "/", "b">>}

\* what setup handlers reject with: the values thrown by steps, and
\* FORBIDDEN with no status of its own
SetupFailures == Thrown \cup {ERPCError("FORBIDDEN", "denied", NoCustomCode)}

\* upgrade requests and the setup handlers of the connections they open
NextUpgrade ==
  \/ \E r \in 1..Len(wsRouters) : Declaring /\ sub(r, <<"/", ":", "v">>)
  \/ \E r \in 1..Len(wsRouters), p \in SetupKeys : Declaring /\ ws(r, p)
  \/ \E u \in SetupUrls : Upgrade(u)
  \/ \E c \in 1..Len(conns) : SetupResolved(c)
  \/ \E c \in 1..Len(conns), err \in SetupFailures : SetupRejected(c, err)

\* upgrade requests and setup handlers, with verbose reporting on and off
SpecUpgrade == InitServer({NoPrefix}, BOOLEAN) /\ [][NextUpgrade]_vars

\* routes are declared before and after the first upgrade request
LazyKeys == {<<"/", "a">>, <<"/", ":", "v">>}
LazyUrls == {<<"/", "a">>, <<"/", "b">>, <<"/", "a", "/", "b">>}

NextLazy ==
  \/ \E r \in 1..Len(wsRouters) : sub(r, <<"/", "a">>)
  \/ \E r \in 1..Len(wsRouters), p \in LazyKeys : ws(r, p)
  \/ \E u \in LazyUrls : UpgradeWithin(MaxUnits, u)

\* declarations and upgrade requests in any order
SpecLazy == InitServer({NoPrefix}, {TRUE}) /\ [][NextLazy]_vars

\* failures of setup handlers that differ in their message alone, and
\* the values thrown by steps
ReasonFailures ==
  Thrown \cup {ERPCError("FORBIDDEN", "denied", NoCustomCode),
               ERPCError("FORBIDDEN", "secret", NoCustomCode),
               Error("bang")}

\* connections to one route whose setup handlers complete or fail
NextReason ==
  \/ declCount = 0 /\ Declaring /\ ws(1, GatewayKey)
  \/ UpgradeWithin(MaxUnits, GatewayKey)
  \/ \E c \in 1..Len(conns) : SetupResolved(c)
  \/ \E c \in 1..Len(conns), err \in ReasonFailures : SetupRejected(c, err)

\* the close reasons of failed setup handlers, with verbose reporting on
\* and off
SpecReason == InitServer({NoPrefix}, BOOLEAN) /\ [][NextReason]_vars

\* the frame of the example client, and a text that is no JSON
ClientWires ==
  {stringify("send_message", [k \in {"contents"} |-> "string"]), Text("hello")}

\* one connection from its upgrade request on: the setup handler registers
\* handlers and completes or fails, while the peer sends frames
NextTakeover ==
  \/ declCount = 0 /\ Declaring /\ ws(1, GatewayKey)
  \/ Len(conns) = 0 /\ Upgrade(GatewayKey)
  \/ \E c \in 1..Len(conns), h \in EventHandlers : on(c, "send_message", h)
  \/ \E c \in 1..Len(conns), wire \in ClientWires : Message(c, wire)
  \/ \E c \in 1..Len(conns) : SetupResolved(c)
  \/ \E c \in 1..Len(conns) : SetupRejected(c, Error("boom"))
  \/ NextListener

\* inbound frames before and after the setup handler completes
SpecTakeover == InitServer({NoPrefix}, {TRUE}) /\ [][NextTakeover]_vars

\* the listeners of the frames before f are past their first await
EarlierParsed(c, f) == \A g \in 1..(f - 1) : conns[c].frames[g].stage # "envelope"

\* frames for send_message, with a payload the schema accepts and with one
\* it refuses
EnvelopeWires ==
  {stringify("send_message", [k \in {"contents"} |-> "string"]),
   stringify("send_message", [k \in {"contents"} |-> "number"])}

\* frames on one connection: reqValidator settles after the same number of
\* turns for every frame, so in the order of arrival; the schema of an
\* event may wait for anything, so its promises settle in any order
NextOrder ==
  \/ declCount = 0 /\ Declaring /\ ws(1, GatewayKey)
  \/ Len(conns) = 0 /\ Upgrade(GatewayKey)
  \/ \E c \in 1..Len(conns) : on(c, "send_message", "h1")
  \/ \E c \in 1..Len(conns), wire \in EnvelopeWires : Message(c, wire)
  \/ \E c \in 1..Len(conns), f \in 1..MaxFrames :
       f <= Len(conns[c].frames) /\ EarlierParsed(c, f) /\ EnvelopeParsed(c, f)
  \/ \E c \in 1..Len(conns), f \in 1..MaxFrames :
       f <= Len(conns[c].frames) /\ PayloadParsed(c, f)
  \/ \E c \in 1..Len(conns), f \in 1..MaxFrames, how \in {"fulfilled", "rejected"} :
       f <= Len(conns[c].frames) /\ EventHandlerSettled(c, f, how)

\* the order in which the frames of one connection reach their handlers
SpecOrder == InitServer({NoPrefix}, {TRUE}) /\ [][NextOrder]_vars

\* request bodies the schema of input() accepts, with different outputs
IsolationBodies == {7, 3}

\* the request is in the chain: no response yet, and not past the route
InFlight(r) == requests[r].phase \in {"pending", "step", "handler"}

\* the chain base, input, s1 is built and registered with a handler, and a
\* connection route is declared; requests are in the chain side by side,
\* and connections to the route are open side by side.  Requests and
\* connections have no state in common, so they are followed one after the
\* other: connections are opened once no request is in the chain.  The
\* setup handler of a connection registers one handler, and its peer sends
\* a frame once the listener is through with the frame before.
NextIsolation ==
  \/ Len(procedures) = 1 /\ input(1)
  \/ Len(procedures) = 2 /\ Fresh("s1") /\ extend(2, "s1")
  \/ Len(procedures) = 3 /\ finalize(3)
  \/ \E b \in IsolationBodies : conns = <<>> /\ ArriveWithin(MaxUnits, b, PlainQuery(8))
  \/ \E r \in 1..Len(requests) : Dispatch(r)
  \/ \E r \in 1..Len(requests) : StepFulfilled(r)
  \/ \E r \in 1..Len(requests) : HandlerFulfilled(r, "r1")
  \/ declCount = 0 /\ Declaring /\ ws(1, GatewayKey)
  \/ /\ \A r \in 1..Len(requests) : ~InFlight(r)
     /\ UpgradeWithin(MaxUnits, GatewayKey)
  \/ \E c \in 1..Len(conns), h \in EventHandlers :
       conns[c].registered = <<>> /\ on(c, "send_message", h)
  \/ \E c \in 1..Len(conns) :
       /\ \A f \in 1..Len(conns[c].frames) : conns[c].frames[f].stage \in {"done", "dropped"}
       /\ Message(c, stringify("send_message", [k \in {"contents"} |-> "string"]))
  \/ \E c \in 1..Len(conns), f \in 1..MaxFrames :
       f <= Len(conns[c].frames) /\ EnvelopeParsed(c, f)
  \/ \E c \in 1..Len(conns), f \in 1..MaxFrames :
       f <= Len(conns[c].frames) /\ PayloadParsed(c, f)
  \/ \E c \in 1..Len(conns), f \in 1..MaxFrames :
       f <= Len(conns[c].frames) /\ EventHandlerSettled(c, f, "fulfilled")

\* requests through one finalized procedure, and connections to one route
SpecIsolation == InitServer({NoPrefix}, {TRUE}) /\ [][NextIsolation]_vars

\* the chain base, s1 is built and registered with a handler; requests go
\* through it side by side, and the promise of a step or of the handler
\* may be one that never settles
NextHang ==
  \/ Len(procedures) = 1 /\ extend(1, "s1")
  \/ Len(procedures) = 2 /\ finalize(2)
  \/ ArriveWithin(MaxUnits, 7, PlainQuery(8))
  \/ \E r \in 1..Len(requests) : Dispatch(r)
  \/ \E r \in 1..Len(requests) : Settle(r)
  \/ \E r \in 1..Len(requests) : Hang(r)

\* express dispatches every request it has received, and the event loop
\* runs the reaction of every promise that settles: a request that is
\* waiting to be dispatched is dispatched, and a step or handler whose
\* promise is not one that never settles has its .then or .catch called
SpecHang ==
  /\ InitServer({NoPrefix}, {TRUE})
  /\ [][NextHang]_vars
  /\ \A r \in 1..MaxUnits : WF_vars(r <= Len(requests) /\ Dispatch(r))
  /\ \A r \in 1..MaxUnits : WF_vars(r <= Len(requests) /\ Settle(r))

\* the http server calls the listener of "upgrade" for each upgrade
\* request it receives, and the listener runs to its end
SpecUnmatched ==
  /\ InitServer({NoPrefix}, {TRUE})
  /\ [][NextLazy]_vars
  /\ WF_vars(NextLazy)

Spec == Init /\ [][Next]_vars


(***************************************************************************)
(* Properties of the path matcher.  They are stated on the last upgrade    *)
(* request: the compiled tree, the segments of its path and the endpoint   *)
(* matchPathToEndpoint returned for them.                                  *)
(***************************************************************************)
Upgraded == upgradeCount > 0

IsVariable(x) == startsWith(x, <<":">>)

\* the first entry of the tree that returns a match for the segments
FirstWinner(tree, segments) ==
  CHOOSE i \in 1..Len(tree) :
    /\ checkSubrouter(tree[i], segments).matched
    /\ \A j \in 1..(i - 1) : ~checkSubrouter(tree[j], segments).matched

\* the levels the matcher visits: the tree with all the segments, then the
\* subtree of the first entry that matches with the segments left over
RECURSIVE Levels(_, _, _)
Levels(tree, segments, offset) ==
  IF ~matchPathToEndpoint(tree, segments).matched THEN <<>>
  ELSE LET e == tree[FirstWinner(tree, segments)]
           here == [tree |-> tree, segments |-> segments, path |-> e.path,
                    offset |-> offset]
       IN IF e.isFn \/ Len(e.path) = Len(segments) THEN <<here>>
          ELSE <<here>> \o Levels(e.sub, slice(segments, Len(e.path), Len(segments)),
                                  offset + Len(e.path))

\* C1: among sibling entries that each return a complete match for the
\* remaining input, the match of the earliest-declared one is returned, at
\* the top level (the endpoint of the upgrade) and at every level below it.
C1_FirstMatchWins ==
  Upgraded =>
    LET tree == compiledWsRouter.tree
        segments == upgrade.segments
        levels == Levels(tree, segments, 0)
        Winners(l) == {i \in 1..Len(l.tree) : checkSubrouter(l.tree[i], l.segments).matched}
    IN /\ \A i \in 1..Len(tree) :
            /\ checkSubrouter(tree[i], segments).matched
            /\ \A j \in 1..(i - 1) : ~checkSubrouter(tree[j], segments).matched
            => upgrade.endpoint = checkSubrouter(tree[i], segments)
       /\ \A n \in 1..Len(levels) :
            \A i \in Winners(levels[n]) :
              (\A j \in Winners(levels[n]) : i <= j)
              => matchPathToEndpoint(levels[n].tree, levels[n].segments)
                   = checkSubrouter(levels[n].tree[i], levels[n].segments)

\* C1 witness: two siblings return different matches for the path, and the
\* endpoint is the match of the earlier one.
C1_Witness ==
  /\ Upgraded
  /\ \E i, j \in 1..Len(compiledWsRouter.tree) :
       LET a == checkSubrouter(compiledWsRouter.tree[i], upgrade.segments)
           b == checkSubrouter(compiledWsRouter.tree[j], upgrade.segments)
       IN /\ i < j
          /\ a.matched /\ b.matched
          /\ a.getValue # b.getValue
          /\ a.variables # b.variables
          /\ upgrade.endpoint = a

\* an entry with the empty key: its template is the one empty segment
IsIndexEntry(entry) == entry.path = << <<>> >>

\* the subtree has an index entry that leads to a Terminal
RECURSIVE HasIndexEntry(_)
HasIndexEntry(tree) ==
  \E j \in 1..Len(tree) :
    /\ IsIndexEntry(tree[j])
    /\ (tree[j].isFn \/ HasIndexEntry(tree[j].sub))

\* some entry agrees with the segments at every literal position of its
\* template and the number of segments is compatible with it
RECURSIVE SomeEntryAgrees(_, _)
SomeEntryAgrees(tree, segments) ==
  \E i \in 1..Len(tree) :
    LET path == tree[i].path
    IN /\ Len(path) <= Len(segments)
       /\ \A p \in 1..Len(path) : IsVariable(path[p]) \/ path[p] = segments[p]
       /\ IF tree[i].isFn THEN Len(path) = Len(segments)
          ELSE IF Len(path) = Len(segments) THEN HasIndexEntry(tree[i].sub)
          ELSE SomeEntryAgrees(tree[i].sub, slice(segments, Len(path), Len(segments)))

\* C2: the matcher returns a match if and only if some entry agrees with the
\* path at every literal position and the path's length is compatible with
\* it: equal for a Terminal; for a subtree, equal provided the subtree has an
\* index entry, or longer provided the rest matches in the subtree.
C2_MatchIffSomeEntryAgrees ==
  Upgraded =>
    (upgrade.endpoint.matched
       <=> SomeEntryAgrees(compiledWsRouter.tree, upgrade.segments))

\* the variable segments of the templates on the winning path:
\* [name, level, at]: declared at this level, at this position of the input
Declared(levels) ==
  { [name |-> slice(levels[n].path[p], 1, Len(levels[n].path[p])),
     level |-> n, at |-> levels[n].offset + p] :
      <<n, p>> \in { <<n, p>> \in (1..Len(levels)) \X (1..5) :
                       /\ p <= Len(levels[n].path)
                       /\ IsVariable(levels[n].path[p]) } }

\* d is the last declaration of its name on the winning path
IsLast(d, declared) ==
  \A o \in declared :
    o.name = d.name => (o.level < d.level \/ (o.level = d.level /\ o.at <= d.at))

\* C3: the bindings of a match map every variable segment of the templates
\* on the winning path to the input segment at its position (the innermost
\* one when a name is declared more than once) and hold nothing else.
C3_BindingsOfWinningPath ==
  (Upgraded /\ upgrade.endpoint.matched) =>
    LET declared == Declared(Levels(compiledWsRouter.tree, upgrade.segments, 0))
    IN /\ DOMAIN upgrade.endpoint.variables = {d.name : d \in declared}
       /\ \A d \in declared :
            IsLast(d, declared) =>
              upgrade.endpoint.variables[d.name] = upgrade.segments[d.at]

\* C4: when a template and a template deeper on the winning path declare a
\* variable of the same name, the binding is the input segment at the
\* position of the deeper template's variable.
C4_InnerBindingWins ==
  (Upgraded /\ upgrade.endpoint.matched) =>
    LET declared == Declared(Levels(compiledWsRouter.tree, upgrade.segments, 0))
    IN \A outer, inner \in declared :
         (outer.name = inner.name /\ outer.level < inner.level
            /\ IsLast(inner, declared))
         => /\ inner.name \in DOMAIN upgrade.endpoint.variables
            /\ upgrade.endpoint.variables[inner.name] = upgrade.segments[inner.at]

(***************************************************************************)
(* Properties of the procedure chain.                                      *)
(***************************************************************************)
\* the steps of procedure p as it was declared: those of the procedure it
\* was derived from, then the step appended
RECURSIVE DeclaredSteps(_)
DeclaredSteps(p) ==
  IF procedures[p].parent = 0 THEN <<procedures[p].mw>>
  ELSE Append(DeclaredSteps(procedures[p].parent), procedures[p].mw)

\* the steps procedure p holds now
StepsOf(p) == arrays[procedures[p].previous]

\* C5: extend, input and query never change the receiver: every procedure
\* keeps the steps it was created with, a derived procedure's steps are its
\* parent's steps followed by the appended step, and the children of one
\* base do not see each other's steps.
C5_ExtendLeavesReceiver ==
  \A p \in 1..Len(procedures) :
    /\ StepsOf(p) = DeclaredSteps(p)
    /\ procedures[p].parent = 0 => StepsOf(p) = <<BaseStep>>
    /\ procedures[p].parent # 0 =>
         StepsOf(p) = Append(StepsOf(procedures[p].parent), procedures[p].mw)
    /\ \A q \in 1..Len(procedures) :
         p # q => procedures[p].previous # procedures[q].previous

\* two children derived from baseProcedure with different steps
C5_Witness ==
  \E p, q \in 1..Len(procedures) :
    /\ procedures[p].parent = 1
    /\ procedures[q].parent = 1
    /\ procedures[p].mw = "s1"
    /\ procedures[q].mw = InputStep

Steps == DeclaredSteps(route.procedure)

HandlerCalled(req) == \E k \in 1..Len(req.calls) : req.calls[k] = Len(Steps) + 1

RejectedAt(req, i) == \E j \in 1..Len(req.rejected) : req.rejected[j].index = i

\* C6: the steps of a request run in declared order: step i+1 starts only
\* after step i has succeeded and its result has been merged, and the
\* terminal handler starts only after every step has succeeded.
C6_StepsInDeclaredOrder ==
  \A r \in 1..Len(requests) :
    LET req == requests[r]
    IN /\ \A k \in 1..Len(req.calls) :
            /\ req.calls[k] = k
            /\ k <= Len(Steps) => route.middlewares[k] = Steps[k]
            /\ k > 1 => ~RejectedAt(req, k - 1) /\ Len(req.returned) >= k - 1
       /\ HandlerCalled(req) =>
            /\ Len(req.returned) = Len(Steps)
            /\ \A i \in 1..Len(Steps) : ~RejectedAt(req, i)

\* the keys the results hold, and the last result that holds key
KeysOf(results) == UNION {DOMAIN results[i] : i \in 1..Len(results)}

LastWriter(results, key) ==
  CHOOSE i \in 1..Len(results) :
    /\ key \in DOMAIN results[i]
    /\ \A j \in (i + 1)..Len(results) : key \notin DOMAIN results[j]

\* C7: the context the terminal handler sees is the left-to-right overwrite
\* merge of what the steps returned: each key has the value of the last
\* step that returned it.
C7_LastWriterWins ==
  \A r \in 1..Len(requests) :
    LET req == requests[r]
    IN HandlerCalled(req) =>
         /\ DOMAIN req.seen = KeysOf(req.returned)
         /\ \A key \in DOMAIN req.seen :
              req.seen[key] = req.returned[LastWriter(req.returned, key)][key]

\* the handler runs after s1 returned {a: 1, b: 1} and s2 returned {a: 2}
C7_Witness ==
  \E r \in 1..Len(requests) :
    /\ HandlerCalled(requests[r])
    /\ requests[r].returned = <<EmptyLocals, Returns("s1"), Returns("s2")>>
    /\ requests[r].seen = [k \in {"a", "b"} |-> IF k = "a" THEN 2 ELSE 1]

\* C8: when step k fails, no later step and no terminal handler runs,
\* nothing of step k is merged, and the error sink receives exactly one
\* failure, the one step k raised.
C8_FailureStopsChain ==
  \A r \in 1..Len(requests) :
    LET req == requests[r]
    IN \A j \in 1..Len(req.rejected) :
         LET k == req.rejected[j].index
         IN k <= Len(Steps) =>
              /\ \A c \in 1..Len(req.calls) : req.calls[c] <= k
              /\ Len(req.returned) = k - 1
              /\ Len(req.sink) = 1
              /\ req.sink[1].err = req.rejected[j].err

Terminated(req) == req.phase \notin {"pending", "step", "handler"}

SuccessEnvelope(req) ==
  /\ req.writes = 1
  /\ Len(req.handled) = 1
  /\ req.body = [written |-> TRUE, success |-> TRUE, result |-> req.handled[1],
                 error |-> UndefinedError]
  /\ req.sink = <<>>

SinkOnce(req) ==
  /\ Len(req.sink) = 1
  /\ req.writes = 1
  /\ ~req.body.success

\* C9: a request goes pending, running steps, terminal running, then
\* completed or failed, with no retries: no middleware runs twice, and a
\* request that terminates has either the success envelope with the
\* handler's result written once, or the error sink invoked once.
C9_OneOutcome ==
  \A r \in 1..Len(requests) :
    LET req == requests[r]
    IN /\ \A k, l \in 1..Len(req.calls) : k # l => req.calls[k] # req.calls[l]
       /\ req.writes <= 1 /\ Len(req.sink) <= 1
       /\ req.phase = "handler" => HandlerCalled(req)
       /\ HandlerCalled(req) => Len(req.calls) = Len(Steps) + 1
       /\ Terminated(req) => SuccessEnvelope(req) \/ SinkOnce(req)
       /\ Terminated(req) /\ RejectedAt(req, Len(Steps) + 1) => SinkOnce(req)

\* the status the claim gives a failure
ClaimedStatus(err) ==
  IF err.isERPC
  THEN IF err.customCode.defined THEN err.customCode.value
       ELSE CASE err.code = "BAD_REQUEST" -> 400
              [] err.code = "UNAUTHORIZED" -> 401
              [] err.code = "FORBIDDEN" -> 403
              [] err.code = "NOT_FOUND" -> 404
              [] err.code = "SERVER_ERROR" -> 500
  ELSE 500

VerboseTypedBody(req, err) ==
  LOG_ERRORS /\ err.isERPC =>
    req.body = [written |-> TRUE, success |-> FALSE, result |-> NoResult,
                error |-> [kind |-> "typed", type |-> err.code,
                           message |-> err.message]]

\* C10 as stated: whenever a failure reaches the default error sink the
\* response status is the failure's override status, else the table status
\* of its kind, else 500; under verbose reporting a typed failure's body
\* is {success: false, error: {type, message}}.
C10_SinkStatus ==
  \A r \in 1..Len(requests) :
    LET req == requests[r]
    IN \A i \in 1..Len(req.sink) :
         /\ req.statusCode = ClaimedStatus(req.sink[i].err)
         /\ VerboseTypedBody(req, req.sink[i].err)

\* C10 amended: the sink sets that status when the response status is
\* still 200 as the failure reaches it; a status set before is kept.  The
\* verbose body of a typed failure is as stated.
C10_SinkStatusUnlessSet ==
  \A r \in 1..Len(requests) :
    LET req == requests[r]
    IN \A i \in 1..Len(req.sink) :
         /\ req.sink[i].statusCode = 200 =>
              req.statusCode = ClaimedStatus(req.sink[i].err)
         /\ req.sink[i].statusCode # 200 => req.statusCode = req.sink[i].statusCode
         /\ VerboseTypedBody(req, req.sink[i].err)

\* UNAUTHORIZED with message "no" gives 401 and the typed body; an override
\* status of 418 is used in another run
C10_Witness ==
  \E r \in 1..Len(requests) :
    /\ LOG_ERRORS
    /\ requests[r].phase = "failed"
    /\ requests[r].sink = <<[err |-> ERPCError("UNAUTHORIZED", "no", NoCustomCode),
                             statusCode |-> 200]>>
    /\ requests[r].statusCode = 401
    /\ requests[r].body.error = TypedError("UNAUTHORIZED", "no")

\* the error field the sink reports for a failure when reporting is verbose:
\* {type, message} for a typed failure, the message for another Error, and
\* for a thrown value that is no Error (it has no message) the fixed text
VerboseError(err) ==
  IF err.isERPC THEN [kind |-> "typed", type |-> err.code, message |-> err.message]
  ELSE IF err.isError THEN [kind |-> "string", type |-> "", message |-> err.message]
  ELSE [kind |-> "string", type |-> "", message |-> "Unknown internal server error"]

\* C11: with verbose reporting off the sink's envelope has success: false
\* and an undefined error field whatever the failure; with verbose
\* reporting on the error field is {type, message} for a typed failure and
\* the message string for an untyped one.
C11_EnvelopeOfSink ==
  \A r \in 1..Len(requests) :
    LET req == requests[r]
    IN \A i \in 1..Len(req.sink) :
         /\ req.body.written /\ ~req.body.success /\ req.body.result = NoResult
         /\ ~LOG_ERRORS => req.body.error = [kind |-> "undefined", type |-> "", message |-> ""]
         /\ LOG_ERRORS => req.body.error = VerboseError(req.sink[i].err)

\* a typed failure reaches the sink with verbose reporting off
C11_Witness ==
  \E r \in 1..Len(requests) :
    /\ ~LOG_ERRORS
    /\ requests[r].phase = "failed"
    /\ Len(requests[r].sink) = 1
    /\ requests[r].sink[1].err = ERPCError("UNAUTHORIZED", "no", NoCustomCode)
    /\ requests[r].body.error.kind = "undefined"

\* the step at index k of the chain has settled for this request
Settled(req, k) == req.index > k \/ (req.index = k /\ req.phase = "failed")

\* the step at index k failed with BAD_REQUEST and this message: the chain
\* stopped there, the handler did not run and the sink was given the failure
BadRequestAt(req, k, message) ==
  /\ req.index = k /\ req.phase = "failed"
  /\ \E j \in 1..Len(req.rejected) :
       /\ req.rejected[j].index = k
       /\ req.rejected[j].err.isERPC
       /\ req.rejected[j].err.code = "BAD_REQUEST"
       /\ req.rejected[j].err.message = message
       /\ ~req.rejected[j].err.customCode.defined
       /\ Len(req.sink) = 1 /\ req.sink[1].err = req.rejected[j].err
  /\ ~HandlerCalled(req)

\* the step at index k succeeded and put value in the context under key
AddedAt(req, k, key, value) ==
  /\ req.index > k
  /\ ~RejectedAt(req, k)
  /\ key \in DOMAIN req.locals /\ req.locals[key] = value
  /\ \E j \in 1..Len(req.returned) : req.returned[j] = [x \in {key} |-> value]

\* the query parameters the query step validates
QueryParameters(req) == req.reqQuery.value

\* what the input step (resp. query step) at index k does, status apart
ValidatorAt(req, k) ==
  /\ route.middlewares[k] = InputStep /\ Settled(req, k) =>
       IF parseAsync(req.reqBody).ok
       THEN AddedAt(req, k, "input", parseAsync(req.reqBody).value)
       ELSE BadRequestAt(req, k, parseAsync(req.reqBody).message)
  /\ route.middlewares[k] = QueryStep /\ Settled(req, k) =>
       IF ~req.reqQuery.wellFormed
       THEN \E m \in {"Unexpected token"} : BadRequestAt(req, k, m)
       ELSE IF parseAsync(QueryParameters(req)).ok
       THEN AddedAt(req, k, "query", parseAsync(QueryParameters(req)).value)
       ELSE BadRequestAt(req, k, parseAsync(QueryParameters(req)).message)

FailedValidatorAt(req, k) ==
  /\ route.middlewares[k] \in {InputStep, QueryStep}
  /\ req.index = k /\ req.phase = "failed"

\* C12 as stated: the input (resp. query) step validates the body (resp.
\* the query parameters); on failure it fails with BAD_REQUEST and the
\* validator's message, the handler does not run and the response status
\* is 400; on success the validated value is in the context under input
\* (resp. query) and the chain goes on.
C12_Validators ==
  \A r \in 1..Len(requests) :
    \A k \in 1..Len(Steps) :
      /\ ValidatorAt(requests[r], k)
      /\ FailedValidatorAt(requests[r], k) => requests[r].statusCode = 400

\* C12 amended: the response status is 400 when the response status was
\* still 200 as the validator failed; a status set before is kept.
C12_ValidatorsUnlessStatusSet ==
  \A r \in 1..Len(requests) :
    \A k \in 1..Len(Steps) :
      /\ ValidatorAt(requests[r], k)
      /\ FailedValidatorAt(requests[r], k) =>
           /\ requests[r].sink[1].statusCode = 200 => requests[r].statusCode = 400
           /\ requests[r].sink[1].statusCode # 200 =>
                requests[r].statusCode = requests[r].sink[1].statusCode

\* an input step refused a body, and a query step passed its parameters on
C12_Witness ==
  \E r \in 1..Len(requests) :
    /\ Steps = <<BaseStep, QueryStep, InputStep>>
    /\ requests[r].reqBody = 0
    /\ requests[r].reqQuery = EncodedQuery(8)
    /\ requests[r].phase = "failed"
    /\ requests[r].statusCode = 400
    /\ requests[r].locals = [x \in {"query"} |-> 80]
    /\ requests[r].sink[1].err = ERPCError("BAD_REQUEST", "invalid", NoCustomCode)


(***************************************************************************)
(* Inbound frames.                                                         *)
(***************************************************************************)
\* the schema of send_message accepts the payload
Accepted(data) == "contents" \in DOMAIN data /\ data["contents"] = "string"

\* the frame is an { eventName, data } envelope
IsEnvelope(wire) == wire.json /\ wire.named

\* the frames handlers have been invoked for, on connection c
InvokedFor(c) == {conns[c].invoked[i].frame : i \in 1..Len(conns[c].invoked)}

\* between the two states the listener has ended in its catch for frame f
DroppedNow(c, f) ==
  /\ f <= Len(conns'[c].frames)
  /\ conns'[c].frames[f].stage = "dropped"
  /\ f <= Len(conns[c].frames) => conns[c].frames[f].stage # "dropped"

\* the listener moves on with frame f, which is one the claim is about:
\* no envelope, no handler under its name, or a payload its schema refuses
MustDrop(c, f) ==
  \/ /\ f = Len(conns[c].frames) + 1
     /\ f <= Len(conns'[c].frames)
     /\ ~conns'[c].frames[f].wire.json
  \/ /\ f <= Len(conns[c].frames)
     /\ conns[c].frames[f].stage = "envelope"
     /\ conns'[c].frames[f].stage # "envelope"
     /\ \/ ~IsEnvelope(conns[c].frames[f].wire)
        \/ conns[c].frames[f].wire.eventName \notin DOMAIN conns[c].socketEventHandlerMap
  \/ /\ f <= Len(conns[c].frames)
     /\ conns[c].frames[f].stage = "payload"
     /\ conns'[c].frames[f].stage # "payload"
     /\ ~Accepted(conns[c].frames[f].data)

Silent(c) ==
  /\ conns'[c].invoked = conns[c].invoked
  /\ conns'[c].sent = conns[c].sent
  /\ conns'[c].close = conns[c].close
  /\ ~conns'[c].close.closed
  /\ conns'[c].socketEventHandlerMap = conns[c].socketEventHandlerMap

\* C13: a frame that is no envelope, names an event with no registered
\* handler, or carries a payload its schema refuses is dropped, and the
\* drop is silent: no handler is invoked for the frame, then or later,
\* nothing is sent, the socket stays open and the handler map is as it was
C13_DroppedSilently ==
  /\ [](\A c \in 1..Len(conns) : \A f \in 1..Len(conns[c].frames) :
          conns[c].frames[f].stage = "dropped" => f \notin InvokedFor(c))
  /\ [][\A c \in 1..Len(conns) : \A f \in 1..MaxFrames :
          /\ MustDrop(c, f) => DroppedNow(c, f)
          /\ DroppedNow(c, f) => Silent(c)]_vars

\* a frame whose payload the schema refused was dropped, and a frame after
\* it reached its handler; nothing was sent and the socket is open
C13_Witness ==
  \E c \in 1..Len(conns) : \E f, g \in 1..Len(conns[c].frames) :
    /\ f < g
    /\ conns[c].frames[f].stage = "dropped"
    /\ conns[c].frames[f].wire.eventName = "send_message"
    /\ ~Accepted(conns[c].frames[f].wire.data)
    /\ conns[c].frames[g].stage = "done"
    /\ g \in InvokedFor(c)
    /\ conns[c].sent = <<>>
    /\ ~conns[c].close.closed


\* what the schema of send_message gives for a payload it accepts
Output(data) == [k \in {"contents"} |-> data[k]]

\* the entries of the log of invocations, on connection c, for frame f
InvocationsOf(c, f) == {i \in 1..Len(conns[c].invoked) : conns[c].invoked[i].frame = f}

\* the frame is an envelope, a handler is registered under its name on
\* connection c, and the route declares a schema for the name
Dispatchable(c, wire) ==
  /\ IsEnvelope(wire)
  /\ wire.eventName \in DOMAIN conns[c].socketEventHandlerMap
  /\ wire.eventName \in Validators

\* C14: for each inbound frame one handler at most is invoked, once; it is
\* invoked if and only if the frame is an envelope, a handler is registered
\* for its event name and the payload passes the schema of the event; it is
\* the handler registered for the name, with the output of the schema
C14_InvokedOnceIffValid ==
  /\ [](\A c \in 1..Len(conns) : \A f \in 1..Len(conns[c].frames) :
          /\ Cardinality(InvocationsOf(c, f)) <= 1
          /\ conns[c].frames[f].stage \in {"handler", "done"} <=> f \in InvokedFor(c)
          /\ f \in InvokedFor(c) =>
               /\ IsEnvelope(conns[c].frames[f].wire)
               /\ conns[c].frames[f].wire.eventName \in Validators
               /\ Accepted(conns[c].frames[f].wire.data))
  /\ [][\A c \in 1..Len(conns) : \A f \in 1..Len(conns[c].frames) :
          LET before == conns[c].frames[f]
              after == conns'[c].frames[f]
              name == before.wire.eventName
          IN /\ before.stage = "envelope" /\ after.stage # "envelope" =>
                  /\ after.stage = "payload" <=> Dispatchable(c, before.wire)
                  /\ Dispatchable(c, before.wire) =>
                       after.handler = conns[c].socketEventHandlerMap[name]
                  /\ conns'[c].invoked = conns[c].invoked
             /\ before.stage = "payload" /\ after.stage # "payload" =>
                  conns'[c].invoked =
                    IF Accepted(before.wire.data)
                    THEN Append(conns[c].invoked,
                                [frame |-> f, handler |-> before.handler,
                                 data |-> Output(before.wire.data)])
                    ELSE conns[c].invoked]_vars

\* a frame for send_message, with a property the schema does not know, has
\* reached the handler registered last, which got the output of the schema
C14_Witness ==
  \E c \in 1..Len(conns) : \E f \in 1..Len(conns[c].frames) :
    /\ conns[c].frames[f].stage = "done"
    /\ "extra" \in DOMAIN conns[c].frames[f].wire.data
    /\ Cardinality(InvocationsOf(c, f)) = 1
    /\ \A i \in InvocationsOf(c, f) :
         /\ conns[c].invoked[i].data = Output(conns[c].frames[f].wire.data)
         /\ conns[c].invoked[i].handler = "h2"
    /\ conns[c].calls = 2


\* the calls of on made on connection c for an event name, by their place
\* in the log
RegistrationsOf(c, name) ==
  {i \in 1..Len(conns[c].registered) : conns[c].registered[i][1] = name}

\* the handler of the last call of on for the name
LastRegistered(c, name) ==
  LET last == CHOOSE i \in RegistrationsOf(c, name) :
                \A j \in RegistrationsOf(c, name) : j <= i
  IN conns[c].registered[last][2]

\* C15: the handler map holds a handler for exactly the names on was
\* called with, the one of the last call for the name; a frame is
\* dispatched to the handler that is then the last registered for its
\* event, and that handler is the one invoked for the frame
C15_LastRegisteredHandler ==
  /\ [](\A c \in 1..Len(conns) :
          /\ DOMAIN conns[c].socketEventHandlerMap =
               {conns[c].registered[i][1] : i \in 1..Len(conns[c].registered)}
          /\ \A name \in DOMAIN conns[c].socketEventHandlerMap :
               conns[c].socketEventHandlerMap[name] = LastRegistered(c, name)
          /\ \A i \in 1..Len(conns[c].invoked) :
               conns[c].invoked[i].handler =
                 conns[c].frames[conns[c].invoked[i].frame].handler)
  /\ [][\A c \in 1..Len(conns) : \A f \in 1..Len(conns[c].frames) :
          conns[c].frames[f].stage = "envelope" /\ conns'[c].frames[f].stage = "payload" =>
            conns'[c].frames[f].handler =
              LastRegistered(c, conns[c].frames[f].wire.eventName)]_vars

\* on was called twice for send_message, with h1 and then with h2; a frame
\* dispatched after both calls was handled by h2, and by h2 alone
C15_Witness ==
  \E c \in 1..Len(conns) : \E f \in 1..Len(conns[c].frames) :
    /\ conns[c].registered = <<<<"send_message", "h1">>, <<"send_message", "h2">>>>
    /\ conns[c].frames[f].stage = "done"
    /\ \A i \in 1..Len(conns[c].invoked) : conns[c].invoked[i].handler = "h2"
    /\ f \in InvokedFor(c)


(***************************************************************************)
(* Round trip of emit.                                                     *)
(***************************************************************************)
\* JSON has a text for every property of the payload
Representable(data) == \A k \in DOMAIN data : data[k] # "undefined"

\* the payloads whose emit for send_message gives the text of frame f of
\* connection c
EmittedAs(c, f) ==
  {d \in Data : Representable(d)
                  /\ conns[c].frames[f].wire = stringify("send_message", d)}

\* C20 as stated: the handler of the receiving connection gets a value
\* equal to the payload that was emitted
C20_RoundTrip ==
  \A c \in 1..Len(conns) : \A i \in 1..Len(conns[c].invoked) :
    \A d \in EmittedAs(c, conns[c].invoked[i].frame) :
      conns[c].invoked[i].data = d

\* C20: the handler of the receiving connection gets the output of the
\* schema for the payload that was emitted, which has the properties the
\* schema declares and no other; it is equal to the emitted payload when
\* that has no other property
C20_RoundTripThroughValidator ==
  \A c \in 1..Len(conns) : \A i \in 1..Len(conns[c].invoked) :
    \A d \in EmittedAs(c, conns[c].invoked[i].frame) :
      /\ conns[c].invoked[i].data = Output(d)
      /\ DOMAIN d = {"contents"} => conns[c].invoked[i].data = d

\* a connection emitted a payload with a property the schema does not
\* declare; the frame reached the handler of the receiving connection,
\* which got the declared property
C20_Witness ==
  \E c \in 1..Len(conns) : \E i \in 1..Len(conns[c].invoked) :
    /\ \E d \in EmittedAs(c, conns[c].invoked[i].frame) : "extra" \in DOMAIN d
    /\ DOMAIN conns[c].invoked[i].data = {"contents"}
    /\ \E e \in 1..Len(conns) : \E n \in 1..Len(conns[e].sent) :
         conns[e].sent[n] = conns[c].frames[conns[c].invoked[i].frame].wire


(***************************************************************************)
(* Upgrade requests and setup handlers.                                    *)
(***************************************************************************)
\* between the two states an upgrade request was handled
UpgradeHandled == upgradeCount' = upgradeCount + 1

\* C16: an upgrade request whose path the matcher matches to a route opens
\* one connection, for the endpoint of that route, and its setup handler
\* is called once, with the bindings of the matcher and the query
\* parameters of the request; no other step opens a connection or calls a
\* setup handler again
C16_OneConnectionPerMatch ==
  [][/\ UpgradeHandled /\ upgrade'.endpoint.matched =>
          /\ Len(conns') = Len(conns) + 1
          /\ \A c \in 1..Len(conns) : conns'[c] = conns[c]
          /\ conns'[Len(conns')].handler = upgrade'.endpoint.getValue
          /\ conns'[Len(conns')].params = upgrade'.endpoint.variables
          /\ conns'[Len(conns')].query = upgrade'.query
          /\ conns'[Len(conns')].setup = "pending"
     /\ ~UpgradeHandled =>
          /\ Len(conns') = Len(conns)
          /\ \A c \in 1..Len(conns) :
               /\ conns'[c].handler = conns[c].handler
               /\ conns'[c].params = conns[c].params
               /\ conns'[c].query = conns[c].query
               /\ conns'[c].setup = "pending" => conns[c].setup = "pending"]_vars

\* the request for "/a?v=b" was matched to a route with a variable: the
\* setup handler was called with v bound to "a" and with the query v=b
C16_Witness ==
  /\ upgrade.endpoint.matched
  /\ upgrade.query # EmptyVariables
  /\ upgrade.endpoint.variables # EmptyVariables
  /\ Len(conns) = upgradeCount
  /\ conns[Len(conns)].params = upgrade.endpoint.variables
  /\ conns[Len(conns)].query = upgrade.query


\* the ready frames sent on connection c, by their place in what was sent
ReadyFrames(c) ==
  {i \in 1..Len(conns[c].sent) : conns[c].sent[i] = Text("@scinorandex/erpc -- stabilize")}

\* C17: the ready frame has been sent once on a connection whose setup
\* handler has completed without failure, and on no other: not while the
\* setup handler is pending, not when it has failed; a step that sends it
\* is the step in which the setup handler completes
C17_ReadyIffSetupCompleted ==
  /\ [](\A c \in 1..Len(conns) :
          Cardinality(ReadyFrames(c)) = IF conns[c].setup = "resolved" THEN 1 ELSE 0)
  /\ [][\A c \in 1..Len(conns) :
          ReadyFrames(c)' # ReadyFrames(c) =>
            conns[c].setup = "pending" /\ conns'[c].setup = "resolved"]_vars

\* the setup handler of a connection has completed: the ready frame is
\* the one frame sent, and the socket is open
C17_Witness ==
  \E c \in 1..Len(conns) :
    /\ conns[c].setup = "resolved"
    /\ conns[c].sent = <<Text("@scinorandex/erpc -- stabilize")>>
    /\ ~conns[c].close.closed


\* the error field of the HTTP error envelope for a failure
HttpErrorField(err) ==
  IF LOG_ERRORS THEN VerboseError(err)
  ELSE [kind |-> "undefined", type |-> "", message |-> ""]

\* C18: when the setup handler has failed the socket is closed with code
\* 4000 + status, the status being the one of the failure's own, else the
\* one of the table for its kind, else 500; the reason is { error } with
\* the error field the HTTP envelope has for the failure; the ready frame
\* is not sent
C18_CloseOnSetupFailure ==
  \A c \in 1..Len(conns) :
    conns[c].setup = "rejected" =>
      LET err == conns[c].rejection[1]
      IN /\ conns[c].close.closed
         /\ conns[c].close.code = 4000 + ClaimedStatus(err)
         /\ conns[c].close.reason = HttpErrorField(err)
         /\ ReadyFrames(c) = {}


\* C19: an upgrade request whose path the matcher matches to no route
\* opens no connection: no setup handler is called and no frame is sent
C19_NoUpgradeWithoutMatch ==
  [][UpgradeHandled /\ ~upgrade'.endpoint.matched => conns' = conns]_vars

\* routes are declared, a request was matched to none of them, and there
\* is no connection
C19_Witness ==
  /\ upgradeCount = 1
  /\ compiledWsRouter.compiled
  /\ compiledWsRouter.tree # <<>>
  /\ ~upgrade.endpoint.matched
  /\ conns = <<>>


(***************************************************************************)
(* The compiled tree.                                                      *)
(***************************************************************************)
\* C22: the tree is not compiled before the first upgrade request, which
\* compiles the declarations made until then; from then on the compiled
\* tree is the same whatever is declared or requested, and every upgrade
\* request is matched against it
C22_CompiledOnce ==
  /\ [](upgradeCount = 0 => ~compiledWsRouter.compiled)
  /\ [][/\ ~compiledWsRouter.compiled /\ UpgradeHandled =>
             compiledWsRouter' =
               [compiled |-> TRUE,
                tree |-> compileRouteTree(RawRoutingEngine(wsRouters, 1))]
        /\ ~UpgradeHandled => compiledWsRouter' = compiledWsRouter
        /\ compiledWsRouter.compiled => compiledWsRouter' = compiledWsRouter
        /\ UpgradeHandled =>
             upgrade'.endpoint =
               matchPathToEndpoint(compiledWsRouter'.tree, upgrade'.segments)]_vars

\* a route was declared after the first upgrade request: the second
\* request, which that route would match, was matched against the tree of
\* the first and matched nothing
C22_Witness ==
  /\ upgradeCount = 2
  /\ compiledWsRouter.tree # compileRouteTree(RawRoutingEngine(wsRouters, 1))
  /\ ~upgrade.endpoint.matched
  /\ matchPathToEndpoint(compileRouteTree(RawRoutingEngine(wsRouters, 1)),
                         upgrade.segments).matched


(***************************************************************************)
(* Index entries.                                                          *)
(***************************************************************************)
\* the template agrees with the segments at every literal position
Agrees(path, segments) ==
  \A p \in 1..Len(path) : IsVariable(path[p]) \/ path[p] = segments[p]

\* the bindings of a template for the segments: every variable of the
\* template is bound to the segment at its position, the last one when the
\* name is used twice
TemplateBindings(path, segments) ==
  LET positions(name) == {p \in 1..Len(path) : path[p] = <<":">> \o name}
      names == {slice(path[p], 1, Len(path[p])) : p \in {q \in 1..Len(path) : IsVariable(path[q])}}
  IN [name \in names |->
        segments[CHOOSE p \in positions(name) : \A q \in positions(name) : q <= p]]

\* the Terminals the index entries of a subtree lead to
RECURSIVE IndexTerminals(_)
IndexTerminals(tree) ==
  UNION {IF ~IsIndexEntry(tree[j]) THEN {}
         ELSE IF tree[j].isFn THEN {tree[j].fn}
         ELSE IndexTerminals(tree[j].sub) : j \in 1..Len(tree)}

\* the rule of the claim, for the entries of a tree the segments agree
\* with, and for those of the subtrees entered with the remaining segments
RECURSIVE IndexRule(_, _)
IndexRule(tree, segments) ==
  \A i \in 1..Len(tree) :
    LET entry == tree[i]
        found == checkSubrouter(entry, segments)
    IN (~entry.isFn /\ Len(entry.path) <= Len(segments) /\ Agrees(entry.path, segments)) =>
         IF Len(entry.path) = Len(segments)
         THEN /\ found.matched <=> IndexTerminals(entry.sub) # {}
              /\ found.matched =>
                   /\ found.getValue \in IndexTerminals(entry.sub)
                   /\ found.variables = TemplateBindings(entry.path, segments)
         ELSE IndexRule(entry.sub, slice(segments, Len(entry.path), Len(segments)))

\* C25: an entry whose value is a subtree and whose template has the length
\* of the remaining input matches if and only if the subtree has an index
\* entry, an entry with the empty key; the match is then the Terminal of
\* the index entry with the bindings of this level
C25_IndexEntry ==
  Upgraded => IndexRule(compiledWsRouter.tree, upgrade.segments)


(***************************************************************************)
(* Declarations under one key.                                             *)
(***************************************************************************)
\* between the two states a declaration was made
DeclarationMade == declCount' = declCount + 1

\* the entries of a router but those under the key
Others(entries, key) == SelectSeq(entries, LAMBDA e : e.key # key)

\* the producers of the routes that can be reached from router r
RECURSIVE Reachable(_, _)
Reachable(heap, r) ==
  UNION {IF heap[r][i].isFn THEN {heap[r][i].fn} ELSE Reachable(heap, heap[r][i].ref) :
           i \in 1..Len(heap[r])}

\* C30: a router holds one entry under each key; a declaration with key p
\* on a router puts its entry under p in place of the one there was, and
\* leaves the entries under other keys, and the other routers, as they
\* were; an upgrade request is matched to a route that is reached from the
\* root router through the entries held then, never to one that was
\* declared under an entry that has been replaced
C30_LatestDeclarationPerKey ==
  /\ [](\A r \in 1..Len(wsRouters) : \A i, j \in 1..Len(wsRouters[r]) :
          wsRouters[r][i].key = wsRouters[r][j].key => i = j)
  /\ [](Upgraded /\ upgrade.endpoint.matched =>
          upgrade.endpoint.getValue \in Reachable(wsRouters, 1))
  /\ [][DeclarationMade =>
          \E r \in 1..Len(wsRouters) : \E i \in 1..Len(wsRouters'[r]) :
            LET entry == wsRouters'[r][i]
            IN /\ IF entry.isFn THEN entry.fn = declCount'
                  ELSE /\ entry.ref = Len(wsRouters')
                       /\ Len(wsRouters') = Len(wsRouters) + 1
                       /\ wsRouters'[entry.ref] = <<>>
               /\ Others(wsRouters'[r], entry.key) = Others(wsRouters[r], entry.key)
               /\ \A q \in 1..Len(wsRouters) : q # r => wsRouters'[q] = wsRouters[q]]_vars

\* "/a" was declared twice on the root router, by ws and then by ws: the
\* request for "/a" was matched to the second declaration
C30_Witness ==
  /\ declCount = 2
  /\ Len(wsRouters[1]) = 1
  /\ wsRouters[1][1].isFn
  /\ Upgraded
  /\ upgrade.endpoint.matched
  /\ upgrade.endpoint.getValue = 2


(***************************************************************************)
(* Failures of event handlers.                                             *)
(***************************************************************************)
\* between the two states the handler called for frame f has failed
HandlerFailedNow(c, f) ==
  /\ conns[c].frames[f].stage = "handler"
  /\ conns'[c].frames[f].stage = "done"
  /\ conns'[c].frames[f].settled = "rejected"

\* C29: when the handler called for a frame fails, nothing is sent, the
\* socket is not closed and the handler map is as it was: no other handler
\* is called for the frame, and the frames that follow are dispatched as
\* before
C29_HandlerFailureSwallowed ==
  [][\A c \in 1..Len(conns) : \A f \in 1..Len(conns[c].frames) :
       HandlerFailedNow(c, f) =>
         /\ Silent(c)
         /\ \A g \in 1..Len(conns[c].frames) :
              g # f => conns'[c].frames[g] = conns[c].frames[g]]_vars

\* the handler called for the first frame failed; the second frame has
\* been dispatched to its handler, nothing was sent, the socket is open
C29_Witness ==
  \E c \in 1..Len(conns) :
    /\ Len(conns[c].frames) = 2
    /\ conns[c].frames[1].settled = "rejected"
    /\ conns[c].frames[2].stage = "handler"
    /\ conns[c].invoked[Len(conns[c].invoked)].frame = 2
    /\ conns[c].sent = <<>>
    /\ ~conns[c].close.closed


(***************************************************************************)
(* Close reasons.                                                          *)
(***************************************************************************)
\* the two failures differ in nothing but their message
SameButMessage(e1, e2) == [e1 EXCEPT !.message = ""] = [e2 EXCEPT !.message = ""]

\* C27: with verbose reporting off, the close reason after a failure of
\* the setup handler does not carry the message of the failure, and two
\* failures that differ in their message alone close the socket with the
\* same code and the same reason
C27_ReasonWithoutMessage ==
  ~LOG_ERRORS =>
    \A c \in 1..Len(conns) :
      conns[c].setup = "rejected" =>
        /\ conns[c].rejection[1].message # "" =>
             conns[c].close.reason.message # conns[c].rejection[1].message
        /\ \A d \in 1..Len(conns) :
             (conns[d].setup = "rejected"
                /\ SameButMessage(conns[c].rejection[1], conns[d].rejection[1])) =>
               conns[c].close = conns[d].close


(***************************************************************************)
(* Inbound frames and the setup handler.                                   *)
(***************************************************************************)
\* C24: no event handler is called for an inbound frame while the setup
\* handler of the connection is pending: a handler is called only once the
\* setup handler has completed or failed
C24_RouterAfterSetup ==
  [][\A c \in 1..Len(conns) :
       conns'[c].invoked # conns[c].invoked => conns[c].setup # "pending"]_vars


(***************************************************************************)
(* Order of the frames of a connection.                                    *)
(***************************************************************************)
\* the listener of frame f is past the validation of the payload
Validated(c, f) == conns[c].frames[f].stage \notin {"envelope", "payload"}

\* C23: of two frames of a connection the one that arrived first is past
\* the parsing of its envelope and the validation of its payload before
\* the other, so the handlers are started in the order of arrival
C23_ValidatedInArrivalOrder ==
  \A c \in 1..Len(conns) :
    /\ \A f, g \in 1..Len(conns[c].frames) :
         f < g /\ Validated(c, g) => Validated(c, f)
    /\ \A i, j \in 1..Len(conns[c].invoked) :
         i < j => conns[c].invoked[i].frame < conns[c].invoked[j].frame


(***************************************************************************)
(* Requests and connections side by side.                                  *)
(***************************************************************************)
\* the context after these results were merged into it, one after the other
RECURSIVE MergedInto(_, _)
MergedInto(locals, results) ==
  IF results = <<>> THEN locals
  ELSE MergedInto(mergeLocals(locals, Head(results)), Tail(results))

\* the handlers on was called with on connection c
RegisteredOn(c) == {conns[c].registered[i][2] : i \in 1..Len(conns[c].registered)}

\* C21: the context of a request holds what the steps of that request
\* returned and nothing else, also when the terminal handler reads it, and
\* a step that settles for one request changes nothing of another request;
\* a call of on on one connection changes nothing of another connection,
\* and a connection dispatches to handlers registered on itself alone
C21_PerUnitState ==
  /\ [](\A r \in 1..Len(requests) :
          /\ requests[r].locals = MergedInto(EmptyLocals, requests[r].returned)
          /\ requests[r].phase \in {"handler", "completed"} =>
               requests[r].seen = MergedInto(EmptyLocals, requests[r].returned))
  /\ [](\A c \in 1..Len(conns) :
          /\ \A name \in DOMAIN conns[c].socketEventHandlerMap :
               conns[c].socketEventHandlerMap[name] \in RegisteredOn(c)
          /\ \A i \in 1..Len(conns[c].invoked) :
               conns[c].invoked[i].handler \in RegisteredOn(c))
  /\ [][/\ \A r, q \in 1..Len(requests) :
            r # q /\ requests'[r] # requests[r] => requests'[q] = requests[q]
        /\ \A c, d \in 1..Len(conns) :
            c # d /\ conns'[c] # conns[c] => conns'[d] = conns[d]]_vars

\* two requests went through the chain and their handlers read contexts
\* with different input; two connections to the route registered different
\* handlers for send_message, and each got a frame to its own handler
C21_Witness ==
  /\ Len(requests) = 2
  /\ requests[1].phase = "completed"
  /\ requests[2].phase = "completed"
  /\ requests[1].seen["input"] # requests[2].seen["input"]
  /\ Len(conns) = 2
  /\ conns[1].registered = <<<<"send_message", "h1">>>>
  /\ conns[2].registered = <<<<"send_message", "h2">>>>
  /\ \E i \in 1..Len(conns[1].invoked) : conns[1].invoked[i].handler = "h1"
  /\ \E i \in 1..Len(conns[2].invoked) : conns[2].invoked[i].handler = "h2"


(***************************************************************************)
(* A step or handler that never settles.                                   *)
(***************************************************************************)
\* request r is there and some other request hangs
BesideHung(r) ==
  /\ r <= Len(requests)
  /\ \E q \in 1..Len(requests) : q # r /\ requests[q].phase = "hung"

\* request r got its response or left the route, or hangs itself
Through(r) ==
  /\ r <= Len(requests)
  /\ requests[r].phase \in {"completed", "failed", "passed", "hung"}

\* C26: a request whose step or handler never settles stays as it is, with
\* no response written and no further middleware called, for ever; every
\* request beside it still gets its response, unless it hangs itself
C26_HungBlocksOnlyItself ==
  /\ [](\A r \in 1..Len(requests) :
          requests[r].phase = "hung" =>
            /\ ~requests[r].body.written
            /\ requests[r].writes = 0
            /\ requests[r].calls[Len(requests[r].calls)] = requests[r].index)
  /\ [][\A r \in 1..Len(requests) :
          requests[r].phase = "hung" => requests'[r] = requests[r]]_vars
  /\ \A r \in 1..MaxUnits : BesideHung(r) ~> Through(r)

\* the first request hangs in its step, with no response; the second went
\* through the step and the handler and has its response
C26_Witness ==
  /\ Len(requests) = 2
  /\ requests[1].phase = "hung"
  /\ requests[1].calls = <<1, 2>>
  /\ ~requests[1].body.written
  /\ requests[2].phase = "completed"
  /\ requests[2].calls = <<1, 2, 3>>
  /\ requests[2].body.success


(***************************************************************************)
(* Upgrade requests no connection route matches.                           *)
(***************************************************************************)
\* C28: an upgrade request whose path matches no connection route is not
\* left pending: in the end it is passed on to the ordinary request
\* handling, or it is answered with not found
C28_UnmatchedNotLeftPending ==
  [](upgrade.socket = "open" => <>(upgrade.socket \in {"passed", "notfound"}))

====
